---- MODULE Spec2Model ----
(***************************************************************************)
(* State-machine model of the EleFit tracker backend (src/app.py): the     *)
(* REST log endpoints, the two voice webhooks, the Realtime-Database       *)
(* append store and the Firestore aggregate document.  Handlers are cut at *)
(* their blocking store calls (push, get, update/set), which is where      *)
(* concurrent requests can interleave.                                     *)
(***************************************************************************)
EXTENDS Integers, Sequences, FiniteSets, TLC

\* ------------------------------------------------------------------ bounds
\* Requests served in one behaviour.
MaxReqs == 2

\* Requests accepted by the account-linking endpoints in one behaviour.
MaxLinkReqs == 4

\* Two request slots: Flask serves requests concurrently, two at a time here.
Workers == {"w1", "w2"}

\* ------------------------------------------------------- program constants
TEST_MODE == FALSE

WORKOUT_REQUIRED == <<"workoutType", "activityName", "duration", "timestamp", "source">>

MEAL_REQUIRED == <<"mealType", "foodItems", "timestamp", "source">>

\* --------------------------------------------------------------- text values
\* A Python str is a sequence of one-character strings.
S_running == <<"r", "u", "n", "n", "i", "n", "g">>

S_Running == <<"R", "u", "n", "n", "i", "n", "g">>

S_cardio == <<"c", "a", "r", "d", "i", "o">>

S_snack == <<"s", "n", "a", "c", "k">>

S_Lunch == <<"L", "u", "n", "c", "h">>

S_lunch == <<"l", "u", "n", "c", "h">>

S_oatmeal == <<"o", "a", "t", "m", "e", "a", "l">>

S_45 == <<"4", "5">>

S_forty == <<"f", "o", "r", "t", "y">>

S_empty == <<>>

\* Python None / an absent optional value, and a present one.
None == <<>>

Some(x) == <<x>>

\* datetime.datetime.now().strftime('%Y-%m-%d')
Today == "2023-08-11"

\* ---------------------------------------------------------------- identifiers
\* Variant of Key that hands out the same key on every push.
Key_Same(n) == [tag |-> "key", n |-> 0]

Key(n) == [tag |-> "key", n |-> n]

TEMP_ID == [tag |-> "temp_id", n |-> 0]

NoId == [tag |-> "none", n |-> 0]

\* ------------------------------------------------------------ pure helpers
UPPER == <<"A","B","C","D","E","F","G","H","I","J","K","L","M","N","O","P","Q","R","S","T","U","V","W","X","Y","Z">>

LOWER == <<"a","b","c","d","e","f","g","h","i","j","k","l","m","n","o","p","q","r","s","t","u","v","w","x","y","z">>

DIGITS == <<"0","1","2","3","4","5","6","7","8","9">>

LowerChar(c) ==
  IF \E i \in DOMAIN UPPER : UPPER[i] = c
  THEN LOWER[CHOOSE i \in DOMAIN UPPER : UPPER[i] = c]
  ELSE c

\* str.lower()
lower(s) == [i \in DOMAIN s |-> LowerChar(s[i])]

IsDigit(c) == \E i \in DOMAIN DIGITS : DIGITS[i] = c

DigitVal(c) == (CHOOSE i \in DOMAIN DIGITS : DIGITS[i] = c) - 1

RECURSIVE DigitsVal(_)
DigitsVal(s) ==
  IF s = <<>> THEN 0
  ELSE 10 * DigitsVal(SubSeq(s, 1, Len(s) - 1)) + DigitVal(s[Len(s)])

\* int(str): an optional sign followed by one or more decimal digits; anything
\* else is a ValueError (ok = FALSE).
ParseInt(s) ==
  LET signed == s # <<>> /\ s[1] \in {"-", "+"}
      body   == IF signed THEN Tail(s) ELSE s
      ok     == body # <<>> /\ \A i \in DOMAIN body : IsDigit(body[i])
  IN  [ok  |-> ok,
       val |-> IF ~ok THEN 0
               ELSE IF signed /\ s[1] = "-" THEN 0 - DigitsVal(body)
               ELSE DigitsVal(body)]

\* Values a slot's 'value' key can carry in the JSON envelope.
SV(s) == [t |-> "str", s |-> s, n |-> 0]

IV(n) == [t |-> "int", s |-> <<>>, n |-> n]

\* a slot entry without a 'value' key, or with value null
NoValue == [t |-> "novalue", s |-> <<>>, n |-> 0]

\* a slot entry that is itself null
NullEntry == [t |-> "null", s |-> <<>>, n |-> 0]

\* Python truthiness of .get('value')
Truthy(v) == (v.t = "str" /\ v.s # <<>>) \/ (v.t = "int" /\ v.n # 0)

Ret(v) == [exc |-> FALSE, val |-> v]

Raised == [exc |-> TRUE, val |-> NoValue]

\* Variant of get_slot_value that stops at the first alias that is in the bag,
\* whether or not its value is empty.
RECURSIVE get_slot_value_FirstPresent(_, _, _)
get_slot_value_FirstPresent(slots, possible_slot_names, default_value) ==
  IF possible_slot_names = <<>> THEN Ret(default_value)
  ELSE IF slots.t = "null" THEN Raised
  ELSE LET slot_name == Head(possible_slot_names) IN
       IF slot_name \in DOMAIN slots.m
       THEN IF slots.m[slot_name].t = "null" THEN Raised
            ELSE Ret(slots.m[slot_name])
       ELSE get_slot_value_FirstPresent(slots, Tail(possible_slot_names), default_value)

\* slots: [t |-> "dict", m |-> function from slot names to entries], or
\* [t |-> "null"] when the intent carries "slots": null.
RECURSIVE get_slot_value(_, _, _)
get_slot_value(slots, possible_slot_names, default_value) ==
  IF possible_slot_names = <<>> THEN Ret(default_value)
  ELSE IF slots.t = "null" THEN Raised
  ELSE LET slot_name == Head(possible_slot_names) IN
       IF slot_name \in DOMAIN slots.m
       THEN IF slots.m[slot_name].t = "null" THEN Raised
            ELSE IF Truthy(slots.m[slot_name]) THEN Ret(slots.m[slot_name])
            ELSE get_slot_value(slots, Tail(possible_slot_names), default_value)
       ELSE get_slot_value(slots, Tail(possible_slot_names), default_value)

\* dict.get(key) -> value or None
Get(d, k) == IF k \in DOMAIN d THEN Some(d[k]) ELSE None

\* The first required field that is not a key of data, "" when none is missing.
RECURSIVE MissingField(_, _)
MissingField(data, required_fields) ==
  IF required_fields = <<>> THEN ""
  ELSE IF Head(required_fields) \notin DOMAIN data THEN Head(required_fields)
  ELSE MissingField(data, Tail(required_fields))

WorkoutDoc(data) ==
  [workout_type  |-> data["workoutType"],
   activity_name |-> data["activityName"],
   duration      |-> data["duration"],
   distance      |-> Get(data, "distance"),
   sets          |-> Get(data, "sets"),
   reps          |-> Get(data, "reps"),
   timestamp     |-> data["timestamp"],
   source        |-> data["source"]]

MealDoc(data) ==
  [meal_type  |-> data["mealType"],
   food_items |-> data["foodItems"],
   timestamp  |-> data["timestamp"],
   source     |-> data["source"]]

\* Variant of WorkoutEntry that carries the placeholder where the key belongs.
WorkoutEntry_Placeholder(doc, id) ==
  [workoutType  |-> doc.workout_type,
   activityName |-> doc.activity_name,
   duration     |-> doc.duration,
   distance     |-> doc.distance,
   sets         |-> doc.sets,
   reps         |-> doc.reps,
   timestamp    |-> doc.timestamp,
   source       |-> doc.source,
   type         |-> "workout",
   id           |-> TEMP_ID]

\* sync_to_firestore's mapping of a Realtime-Database document to an aggregate entry
WorkoutEntry(doc, id) ==
  [workoutType  |-> doc.workout_type,
   activityName |-> doc.activity_name,
   duration     |-> doc.duration,
   distance     |-> doc.distance,
   sets         |-> doc.sets,
   reps         |-> doc.reps,
   timestamp    |-> doc.timestamp,
   source       |-> doc.source,
   type         |-> "workout",
   id           |-> id]

MealEntry(doc, id) ==
  [mealType  |-> doc.meal_type,
   foodItems |-> doc.food_items,
   timestamp |-> doc.timestamp,
   source    |-> doc.source,
   type      |-> "meal",
   id        |-> id]

\* --------------------------------------------------------------- responses
\* outputSpeech text: a template tag with the values formatted into it.
Speech(tag, s1, s2, n) == [tag |-> tag, s1 |-> s1, s2 |-> s2, n |-> n]

\* an envelope without an outputSpeech key
NoSpeech == Speech("", <<>>, <<>>, 0)

\* jsonify({'success': .., 'message': .., '<kind>_id': ..}), status
\* (logs and isLinked are the keys of the list and link-status bodies)
Json(http, success, msg, field, id) ==
  [kind |-> "json", http |-> http, success |-> success, msg |-> msg, field |-> field,
   id |-> id, version |-> "", speech |-> NoSpeech, card |-> "none", end |-> FALSE,
   logs |-> <<>>, isLinked |-> None]

\* Variant of Envelope that ends the session whatever the handler passes.
Envelope_EndsSession(speech, card, end) ==
  [kind |-> "envelope", http |-> 200, success |-> FALSE, msg |-> "", field |-> "",
   id |-> NoId, version |-> "1.0", speech |-> speech, card |-> card, end |-> TRUE,
   logs |-> <<>>, isLinked |-> None]

\* jsonify({"version": "1.0", "response": {outputSpeech, card, shouldEndSession}})
Envelope(speech, card, end) ==
  [kind |-> "envelope", http |-> 200, success |-> FALSE, msg |-> "", field |-> "",
   id |-> NoId, version |-> "1.0", speech |-> speech, card |-> card, end |-> end,
   logs |-> <<>>, isLinked |-> None]

\* The view function returned None: Flask raises and answers 500 with no envelope.
NoResponse ==
  [kind |-> "none", http |-> 500, success |-> FALSE, msg |-> "", field |-> "",
   id |-> NoId, version |-> "", speech |-> NoSpeech, card |-> "none", end |-> FALSE,
   logs |-> <<>>, isLinked |-> None]

\* jsonify({'success': True, 'logs': result}) of the list endpoints
Listing(result) == [Json(200, TRUE, "", "", NoId) EXCEPT !.logs = result]

\* ------------------------------------------------------- the list endpoints
\* The timestamps the requests carry, in the order of Python's str comparison.
Timestamps == <<"2023-08-10", "2023-08-11">>

\* x.get('timestamp', ''): the sort key; '' sorts before every timestamp
TsKey(x) ==
  IF "timestamp" \in DOMAIN x.data
  THEN CHOOSE i \in DOMAIN Timestamps : Timestamps[i] = x.data.timestamp
  ELSE 0

\* One step of the stable sort: x goes behind every element whose key is not smaller.
RECURSIVE InsertDesc(_, _)
InsertDesc(sorted, x) ==
  IF sorted = <<>> THEN <<x>>
  ELSE IF TsKey(Head(sorted)) >= TsKey(x)
  THEN <<Head(sorted)>> \o InsertDesc(Tail(sorted), x)
  ELSE <<x>> \o sorted

\* result.sort(key=lambda x: x.get('timestamp', ''), reverse=True): list.sort is
\* stable, and with reverse=True elements of equal key keep their original order.
RECURSIVE SortByTimestampDesc(_)
SortByTimestampDesc(result) ==
  IF result = <<>> THEN <<>>
  ELSE InsertDesc(SortByTimestampDesc(SubSeq(result, 1, Len(result) - 1)), result[Len(result)])

\* the fixed answers of the list endpoints when Firebase is not initialised
TEST_ID == [tag |-> "test", n |-> 1]

TestWorkoutLogs ==
  <<[id |-> TEST_ID,
     data |-> [workout_type |-> S_running, activity_name |-> S_running, duration |-> 30,
               distance |-> 5, timestamp |-> "2023-08-11", source |-> "test"]]>>

TestMealLogs ==
  <<[id |-> TEST_ID,
     data |-> [meal_type |-> S_lunch,
               food_items |-> <<<<"s", "a", "n", "d", "w", "i", "c", "h">>, <<"a", "p", "p", "l", "e">>>>,
               timestamp |-> "2023-08-11", source |-> "test"]]>>

\* What a log function returns: the REST handlers a JSON body with a status, the
\* log_direct_* helpers a dict (http = 0: no status).
LogRes(success, msg, field, id, http) ==
  [success |-> success, msg |-> msg, field |-> field, id |-> id, http |-> http]

NoRes == LogRes(FALSE, "", "", NoId, 0)

\* ------------------------------------------------------------------- state
VARIABLES
  FIREBASE_INITIALIZED,  \* module global set at import time
  firestore_db,          \* "client" or "None"
  rtdb,                  \* Realtime Database: collection -> records in push order
  nextKey,               \* push keys handed out so far
  users,                 \* Firestore users collection: document id -> document
  sublogs,               \* Firestore users/<email>/<kind>_logs documents
  req,                   \* per worker: the request being handled
  last,                  \* the request completed most recently, with its response
  syncOk,                \* ids whose sync_to_firestore call returned True
  served                 \* requests started so far

vars == <<FIREBASE_INITIALIZED, firestore_db, rtdb, nextKey, users, sublogs, req, last, syncOk, served>>

stores == <<rtdb, nextKey, users, sublogs>>

NoDoc == [exists |-> FALSE, workoutLogs |-> None, mealLogs |-> None, amazonTokens |-> None]

Emails == {"ann@x.org", "bob@x.org"}

DocIds == {"alexa_user"} \cup Emails

NoReq == [shape |-> "none"]

EmptyDict == [k \in {} |-> 0]

\* A request slot: pc is the store call the handler is blocked on, exc the call of the
\* request that raised ("none" while none has), prev the account-linking handler that
\* answered success to the same identity just before this request ("none": no such),
\* calls the requests the handler has sent to the identity and token endpoints.
Idle ==
  [pc |-> "idle", op |-> "none", fn |-> "none", req |-> NoReq, data |-> EmptyDict,
   kind |-> "none", doc |-> NoDoc, id |-> NoId, snap |-> NoDoc, email |-> "",
   pushes |-> 0, syncs |-> 0, pushed |-> FALSE, synced |-> "none", exc |-> "none", prev |-> "none", calls |-> <<>>,
   res |-> NoRes, resp |-> NoResponse]

Init ==
  /\ FIREBASE_INITIALIZED \in BOOLEAN
  /\ firestore_db = IF FIREBASE_INITIALIZED THEN "client" ELSE "None"
  /\ rtdb = [c \in {"workout_logs", "meal_logs"} |-> <<>>]
  /\ nextKey = 0
  /\ users = [d \in DocIds |-> NoDoc]
  /\ sublogs = {}
  /\ req = [w \in Workers |-> Idle]
  /\ last = Idle
  /\ syncOk = {}
  /\ served = 0

\* ------------------------------------------------------ the log functions
\* REST handlers answer with an HTTP status, the log_direct_* helpers return a dict.
IsRest(fn) == fn \in {"log_workout", "log_meal"}

\* Variant of Http that drops the status argument of the return (Flask's default 200).
Http_Default200(fn, code) == IF IsRest(fn) THEN 200 ELSE 0

Http(fn, code) == IF IsRest(fn) THEN code ELSE 0

Done(r, res) == [r EXCEPT !.pc = "done", !.res = res]

\* Variant of LogWorkoutBegin that tests FIREBASE_INITIALIZED before the required fields.
LogWorkoutBegin_InitFirst(r) ==
  IF ~FIREBASE_INITIALIZED
  THEN Done(r, LogRes(FALSE, "Firebase not initialized", "", NoId, Http(r.fn, 500)))
  ELSE IF MissingField(r.data, WORKOUT_REQUIRED) # ""
  THEN Done(r, LogRes(FALSE, "Missing required field", MissingField(r.data, WORKOUT_REQUIRED), NoId, Http(r.fn, 400)))
  ELSE [r EXCEPT !.pc = "push", !.kind = "workout", !.doc = WorkoutDoc(r.data)]

\* log_workout / log_direct_workout up to the push: validation, document, mode checks.
LogWorkoutBegin(r) ==
  LET missing == MissingField(r.data, WORKOUT_REQUIRED) IN
  IF missing # ""
  THEN Done(r, LogRes(FALSE, "Missing required field", missing, NoId, Http(r.fn, 400)))
  ELSE IF TEST_MODE
  THEN Done(r, LogRes(TRUE, "Workout logged in test mode", "", [tag |-> "test", n |-> 0], Http(r.fn, 200)))
  ELSE IF FIREBASE_INITIALIZED
  THEN [r EXCEPT !.pc = "push", !.kind = "workout", !.doc = WorkoutDoc(r.data)]
  ELSE Done(r, LogRes(FALSE, "Firebase not initialized", "", NoId, Http(r.fn, 500)))

\* log_meal / log_direct_meal up to the push.
LogMealBegin(r) ==
  LET missing == MissingField(r.data, MEAL_REQUIRED) IN
  IF missing # ""
  THEN Done(r, LogRes(FALSE, "Missing required field", missing, NoId, Http(r.fn, 400)))
  ELSE IF TEST_MODE
  THEN Done(r, LogRes(TRUE, "Meal logged in test mode", "", [tag |-> "test", n |-> 0], Http(r.fn, 200)))
  ELSE IF FIREBASE_INITIALIZED
  THEN [r EXCEPT !.pc = "push", !.kind = "meal", !.doc = MealDoc(r.data)]
  ELSE Done(r, LogRes(FALSE, "Firebase not initialized", "", NoId, Http(r.fn, 500)))

\* Variant of Logged that reports a failure when sync_to_firestore returned False.
Logged_SyncDecides(r) ==
  IF r.synced = "true"
  THEN LogRes(TRUE, "logged", "", r.id, Http(r.fn, 200))
  ELSE LogRes(FALSE, "sync failed", "", NoId, Http(r.fn, 500))

\* The return after a successful push (whatever sync_to_firestore returned).
Logged(r) ==
  LogRes(TRUE, IF r.kind = "workout" THEN "Workout logged successfully" ELSE "Meal logged successfully",
         "", r.id, Http(r.fn, 200))

\* sync_to_firestore has returned r.synced: the log function returns.
Returned(r) == Done(r, Logged(r))

\* Variant of PushFailed without the voice-channel masking.
PushFailed_NoMasking(r) == LogRes(FALSE, "firebase_error", "", NoId, Http(r.fn, 500))

\* except Exception as firebase_error: success for source 'alexa', the error otherwise.
PushFailed(r) ==
  IF Get(r.data, "source") = Some("alexa")
  THEN LogRes(TRUE, IF r.kind = "workout" THEN "Workout logged for Alexa (no Firebase)"
                    ELSE "Meal logged for Alexa (no Firebase)", "", TEMP_ID, Http(r.fn, 200))
  ELSE LogRes(FALSE, "firebase_error", "", NoId, Http(r.fn, 500))

\* sync_to_firestore's guard before it touches Firestore.
SyncSkipped == ~FIREBASE_INITIALIZED \/ firestore_db = "None"

\* Variant of SyncWritten that appends to the document as it is at the write (an
\* atomic array append) instead of writing back the array read earlier.
SyncWritten_Atomic(cur, snap, kind, doc, id) ==
  IF kind = "workout"
  THEN IF cur.exists
       THEN [cur EXCEPT !.workoutLogs =
               Some(Append(IF cur.workoutLogs = None THEN <<>> ELSE cur.workoutLogs[1],
                           WorkoutEntry(doc, id)))]
       ELSE [NoDoc EXCEPT !.exists = TRUE,
                          !.workoutLogs = Some(<<WorkoutEntry(doc, id)>>),
                          !.mealLogs = Some(<<>>)]
  ELSE IF cur.exists
       THEN [cur EXCEPT !.mealLogs =
               Some(Append(IF cur.mealLogs = None THEN <<>> ELSE cur.mealLogs[1],
                           MealEntry(doc, id)))]
       ELSE [NoDoc EXCEPT !.exists = TRUE,
                          !.workoutLogs = Some(<<>>),
                          !.mealLogs = Some(<<MealEntry(doc, id)>>)]

\* The aggregate document after sync_to_firestore's write, from the snapshot it read.
SyncWritten(cur, snap, kind, doc, id) ==
  IF kind = "workout"
  THEN IF snap.exists
       THEN [cur EXCEPT !.workoutLogs =
               Some(Append(IF snap.workoutLogs = None THEN <<>> ELSE snap.workoutLogs[1],
                           WorkoutEntry(doc, id)))]
       ELSE [NoDoc EXCEPT !.exists = TRUE,
                          !.workoutLogs = Some(<<WorkoutEntry(doc, id)>>),
                          !.mealLogs = Some(<<>>)]
  ELSE IF snap.exists
       THEN [cur EXCEPT !.mealLogs =
               Some(Append(IF snap.mealLogs = None THEN <<>> ELSE snap.mealLogs[1],
                           MealEntry(doc, id)))]
       ELSE [NoDoc EXCEPT !.exists = TRUE,
                          !.workoutLogs = Some(<<>>),
                          !.mealLogs = Some(<<MealEntry(doc, id)>>)]

\* ------------------------------------------------------ voice normalisation
\* Variant of NormWorkout in which a duration that is not an integer leaves the block
\* as an exception instead of falling back to 30.
NormWorkout_Rejects(slots) ==
  LET wt == get_slot_value(slots, <<"WorkoutType", "workoutType">>, SV(S_cardio))
      ds == get_slot_value(slots, <<"Duration", "duration">>, SV(S_empty))
      dv == ds.val
      bad == ~ds.exc /\ Truthy(dv) /\ dv.t = "str" /\ ~ParseInt(dv.s).ok
  IN  [exc |-> wt.exc \/ wt.val.t # "str" \/ ds.exc \/ bad,
       workout_type |-> IF wt.exc \/ wt.val.t # "str" THEN S_empty ELSE lower(wt.val.s),
       duration |-> IF ds.exc \/ ~Truthy(dv) \/ bad THEN 30
                    ELSE IF dv.t = "int" THEN dv.n
                    ELSE ParseInt(dv.s).val]

\* alexa_log / alexa_auth_log: workout_type and duration from the slot bag.
\* exc: an exception left the block (it reaches the handler's outer except).
NormWorkout(slots) ==
  LET wt == get_slot_value(slots, <<"WorkoutType", "workoutType">>, SV(S_cardio))
      ds == get_slot_value(slots, <<"Duration", "duration">>, SV(S_empty))
      dv == ds.val
  IN  [exc |-> wt.exc \/ wt.val.t # "str" \/ ds.exc,
       workout_type |-> IF wt.exc \/ wt.val.t # "str" THEN S_empty ELSE lower(wt.val.s),
       duration |-> IF ds.exc \/ ~Truthy(dv) THEN 30
                    ELSE IF dv.t = "int" THEN dv.n
                    ELSE IF ParseInt(dv.s).ok THEN ParseInt(dv.s).val ELSE 30]

\* Variant of NormMeal that keeps the letter case of the meal type.
NormMeal_KeepsCase(slots) ==
  LET mt == get_slot_value(slots, <<"MealType", "mealType">>, SV(S_snack))
      fi == get_slot_value(slots, <<"FoodItem", "foodItems">>, SV(S_empty))
  IN  [exc |-> mt.exc \/ mt.val.t # "str" \/ fi.exc,
       meal_type |-> IF mt.exc \/ mt.val.t # "str" THEN S_empty ELSE mt.val.s,
       food_item |-> IF fi.exc THEN S_empty ELSE fi.val.s,
       food_items |-> IF fi.exc \/ ~Truthy(fi.val) THEN <<>> ELSE <<fi.val.s>>]

\* meal_type, food_item and food_items from the slot bag (string values).
NormMeal(slots) ==
  LET mt == get_slot_value(slots, <<"MealType", "mealType">>, SV(S_snack))
      fi == get_slot_value(slots, <<"FoodItem", "foodItems">>, SV(S_empty))
  IN  [exc |-> mt.exc \/ mt.val.t # "str" \/ fi.exc,
       meal_type |-> IF mt.exc \/ mt.val.t # "str" THEN S_empty ELSE lower(mt.val.s),
       food_item |-> IF fi.exc THEN S_empty ELSE fi.val.s,
       food_items |-> IF fi.exc \/ ~Truthy(fi.val) THEN <<>> ELSE <<fi.val.s>>]

\* f'alexa_{datetime.datetime.now().timestamp()}'
AlexaTsId == [tag |-> "alexa_ts", n |-> 0]

\* the workout_data dict the voice webhooks build
VoiceWorkoutData(n) ==
  [k \in {"workoutType", "duration", "timestamp", "source", "type", "id"} |->
     CASE k = "workoutType" -> n.workout_type
       [] k = "duration"    -> n.duration
       [] k = "timestamp"   -> Today
       [] k = "source"      -> "alexa"
       [] k = "type"        -> "workout"
       [] k = "id"          -> AlexaTsId]

\* the meal_data dict the voice webhooks build
VoiceMealData(n) ==
  [k \in {"mealType", "foodItems", "timestamp", "source", "type", "id"} |->
     CASE k = "mealType"  -> n.meal_type
       [] k = "foodItems" -> n.food_items
       [] k = "timestamp" -> Today
       [] k = "source"    -> "alexa"
       [] k = "type"      -> "meal"
       [] k = "id"        -> AlexaTsId]

FoodItemOf(data) == IF data["foodItems"] = <<>> THEN S_empty ELSE data["foodItems"][1]

\* "Sorry, there was an error processing your request." (a handler's outer except)
ErrorEnvelope == Envelope(Speech("error_processing", <<>>, <<>>, 0), "none", TRUE)

\* alexa_log's answer to a log intent once log_direct_workout / log_direct_meal has
\* returned: the helper's result dict is not read.
AlexaLogged(r) ==
  IF r.fn = "log_direct_workout"
  THEN Envelope(Speech("workout_logged", r.data["workoutType"], <<>>, r.data["duration"]), "Simple", TRUE)
  ELSE Envelope(Speech("meal_logged", r.data["mealType"], FoodItemOf(r.data), 0), "Simple", TRUE)

\* The HTTP response of the request whose log function returned r.res.
Respond(r) ==
  IF IsRest(r.fn)
  THEN Json(r.res.http, r.res.success, r.res.msg, r.res.field, r.res.id)
  ELSE AlexaLogged(r)

\* ------------------------------------------------------------ request inputs
Sources == {"alexa", "web"}

WSet == {WORKOUT_REQUIRED[i] : i \in DOMAIN WORKOUT_REQUIRED}

MSet == {MEAL_REQUIRED[i] : i \in DOMAIN MEAL_REQUIRED}

\* a JSON body with the keys P
Body(P, src, logType) ==
  [k \in P |->
     CASE k = "workoutType"  -> S_running
       [] k = "activityName" -> S_running
       [] k = "duration"     -> 30
       [] k = "distance"     -> 5
       [] k = "mealType"     -> S_lunch
       [] k = "foodItems"    -> <<S_oatmeal>>
       [] k = "timestamp"    -> Today
       [] k = "source"       -> src
       [] k = "logType"      -> logType]

WorkoutKeySets == {WSet, WSet \cup {"distance"}} \cup {WSet \ {f} : f \in WSet}

MealKeySets == {MSet} \cup {MSet \ {f} : f \in MSet}

WorkoutBodies ==
  {Body(P, src, "") : P \in WorkoutKeySets \ {WSet \cup {"distance"}}, src \in Sources}
  \cup {Body(WSet \cup {"distance"}, "web", "")}

MealBodies == {Body(P, src, "") : P \in MealKeySets, src \in Sources}

\* bodies without a 'request' key sent to /api/alexa/log
DirectBodies ==
  {Body(P \cup {"logType"}, src, "workout") : P \in {WSet, WSet \ {"activityName"}}, src \in Sources}
  \cup {Body(P \cup {"logType"}, src, "meal") : P \in {MSet, MSet \ {"foodItems"}}, src \in Sources}
  \cup {Body(WSet \cup {"logType"}, "web", "sleep"), Body(WSet, "web", "")}

Dict(m) == [t |-> "dict", m |-> m]

NullBag == [t |-> "null", m |-> EmptyDict]

Slots1(a, va) == Dict([k \in {a} |-> va])

Slots2(a, va, b, vb) == Dict([k \in {a, b} |-> IF k = a THEN va ELSE vb])

WorkoutBags ==
  {Dict(EmptyDict), NullBag,
   Slots2("WorkoutType", SV(S_Running), "Duration", SV(S_45)),
   Slots2("workoutType", SV(S_running), "duration", SV(S_forty)),
   Slots2("WorkoutType", NoValue, "Duration", SV(S_empty)),
   Slots2("WorkoutType", SV(S_Running), "Duration", IV(45)),
   Slots1("Duration", SV(<<"-", "5">>)),
   Slots1("Duration", NullEntry),
   Slots1("WorkoutType", IV(5))}

MealBags ==
  {Dict(EmptyDict), NullBag,
   Slots2("MealType", SV(S_Lunch), "FoodItem", SV(S_oatmeal)),
   Slots2("MealType", SV(S_empty), "mealType", SV(S_lunch)),
   Slots1("foodItems", SV(S_oatmeal))}

Voice(type, name, slots) == [shape |-> "voice", type |-> type, name |-> name, slots |-> slots]

VoiceRequests ==
  {Voice(t, "", Dict(EmptyDict)) : t \in {"LaunchRequest", "SessionEndedRequest", "System.ExceptionEncountered"}}
  \cup {Voice("IntentRequest", "LogWorkoutIntent", b) : b \in WorkoutBags}
  \cup {Voice("IntentRequest", "LogMealIntent", b) : b \in MealBags}
  \cup {Voice("IntentRequest", n, Dict(EmptyDict)) :
          n \in {"AMAZON.LaunchIntent", "AMAZON.HelpIntent", "AMAZON.StopIntent", "AMAZON.CancelIntent", "PlayMusicIntent"}}

\* context.System.user.accessToken: absent, or a token with what verifying it yields
\* (verified: id_token.verify_oauth2_token succeeds; email: the verified email claim;
\* payload: the email in the token's unverified payload; None where there is none).
NoToken == [present |-> FALSE, verified |-> FALSE, email |-> None, payload |-> None]

Tokens ==
  {NoToken,
   [present |-> TRUE, verified |-> TRUE, email |-> Some("ann@x.org"), payload |-> Some("ann@x.org")],
   [present |-> TRUE, verified |-> FALSE, email |-> None, payload |-> Some("mallory@x.org")],
   [present |-> TRUE, verified |-> FALSE, email |-> None, payload |-> None]}

VerifiedToken == [present |-> TRUE, verified |-> TRUE, email |-> Some("ann@x.org"), payload |-> Some("ann@x.org")]

AuthControlRequests == {v \in VoiceRequests : v.name \notin {"LogWorkoutIntent", "LogMealIntent"}}

AuthLogRequests ==
  {Voice("IntentRequest", "LogWorkoutIntent", b) :
     b \in {NullBag, Slots2("WorkoutType", SV(S_Running), "Duration", SV(S_45))}}
  \cup {Voice("IntentRequest", "LogMealIntent", b) :
     b \in {Dict(EmptyDict), Slots2("MealType", SV(S_Lunch), "FoodItem", SV(S_oatmeal))}}

\* ------------------------------------------------------------------ actions
\* The handler of worker w returns resp: the slot is free again.
Complete(w, r, resp) ==
  /\ req' = [req EXCEPT ![w] = Idle]
  /\ last' = [r EXCEPT !.pc = "done", !.resp = resp]

\* The handler of worker w blocks on its next store call.
Continue(w, r) ==
  /\ req' = [req EXCEPT ![w] = r]
  /\ UNCHANGED last

Proceed(w, r) == IF r.pc = "done" THEN Complete(w, r, Respond(r)) ELSE Continue(w, r)

Accept(w) ==
  /\ req[w].pc = "idle"
  /\ served < MaxReqs
  /\ served' = served + 1

New(op, fn, request, data) ==
  [Idle EXCEPT !.op = op, !.fn = fn, !.req = request, !.data = data]

\* POST /api/log-workout with a body of Bodies, up to its push
log_workout(w, Bodies) ==
  /\ Accept(w)
  /\ \E body \in Bodies :
       Proceed(w, LogWorkoutBegin(New("log_workout", "log_workout", [shape |-> "rest", body |-> body], body)))
  /\ UNCHANGED <<FIREBASE_INITIALIZED, firestore_db, stores, syncOk>>

\* POST /api/log-meal with a body of Bodies, up to its push
log_meal(w, Bodies) ==
  /\ Accept(w)
  /\ \E body \in Bodies :
       Proceed(w, LogMealBegin(New("log_meal", "log_meal", [shape |-> "rest", body |-> body], body)))
  /\ UNCHANGED <<FIREBASE_INITIALIZED, firestore_db, stores, syncOk>>

\* alexa_log for a body without a voice envelope: dispatch on logType
AlexaDirect(w, body) ==
  LET request == [shape |-> "direct", body |-> body] IN
  IF Get(body, "logType") = Some("workout")
  THEN Proceed(w, LogWorkoutBegin(New("alexa_log", "log_workout", request, body)))
  ELSE IF Get(body, "logType") = Some("meal")
  THEN Proceed(w, LogMealBegin(New("alexa_log", "log_meal", request, body)))
  ELSE Complete(w, New("alexa_log", "none", request, body),
                Json(400, FALSE, "Invalid log type", "", NoId))

\* alexa_log for a voice envelope: control responses and the two log intents
AlexaVoice(w, request) ==
  LET r0 == New("alexa_log", "none", request, EmptyDict)
      nw == NormWorkout(request.slots)
      nm == NormMeal(request.slots)
  IN
  IF request.type = "LaunchRequest"
  THEN Complete(w, r0, Envelope(Speech("welcome", <<>>, <<>>, 0), "none", FALSE))
  ELSE IF request.type = "SessionEndedRequest"
  THEN Complete(w, r0, Envelope(Speech("goodbye", <<>>, <<>>, 0), "none", TRUE))
  ELSE IF request.type = "IntentRequest"
  THEN IF request.name = "LogWorkoutIntent"
       THEN IF nw.exc THEN Complete(w, r0, ErrorEnvelope)
            ELSE Proceed(w, LogWorkoutBegin(New("alexa_log", "log_direct_workout", request, VoiceWorkoutData(nw))))
       ELSE IF request.name = "LogMealIntent"
       THEN IF nm.exc THEN Complete(w, r0, ErrorEnvelope)
            ELSE Proceed(w, LogMealBegin(New("alexa_log", "log_direct_meal", request, VoiceMealData(nm))))
       ELSE Complete(w, r0, Envelope(Speech("unrecognized", <<>>, <<>>, 0), "none", FALSE))
  ELSE Complete(w, r0, Envelope(Speech("unhandled", <<>>, <<>>, 0), "none", FALSE))

\* POST /api/alexa/log with a body of Bodies or an envelope of Requests, up to its push
alexa_log(w, Bodies, Requests) ==
  /\ Accept(w)
  /\ \/ \E body \in Bodies : AlexaDirect(w, body)
     \/ \E request \in Requests : AlexaVoice(w, request)
  /\ UNCHANGED <<FIREBASE_INITIALIZED, firestore_db, stores, syncOk>>

\* Variant of Push that still calls sync_to_firestore after the push raised.
Push_SyncAfterFailure(w) ==
  LET r == req[w] IN
  /\ r.pc = "push"
  /\ \/ LET id == Key(nextKey)
            coll == IF r.kind = "workout" THEN "workout_logs" ELSE "meal_logs"
        IN  /\ rtdb' = [rtdb EXCEPT ![coll] = Append(@, [id |-> id, data |-> r.doc])]
            /\ nextKey' = nextKey + 1
            /\ Continue(w, [r EXCEPT !.pushes = @ + 1, !.pushed = TRUE, !.id = id,
                                     !.syncs = @ + 1, !.pc = "sync_get"])
     \/ /\ Continue(w, [r EXCEPT !.pushes = @ + 1, !.syncs = @ + 1, !.pc = "sync_get"])
        /\ UNCHANGED <<rtdb, nextKey>>
  /\ UNCHANGED <<FIREBASE_INITIALIZED, firestore_db, users, sublogs, syncOk, served>>

\* db.reference(<kind>_logs).push(doc) returns or raises; on return the id is set and
\* sync_to_firestore is entered, up to its user_ref.get().
Push(w) ==
  LET r == req[w] IN
  /\ r.pc = "push"
  /\ \/ LET id == Key(nextKey)
            coll == IF r.kind = "workout" THEN "workout_logs" ELSE "meal_logs"
            r1 == [r EXCEPT !.pushes = @ + 1, !.pushed = TRUE, !.id = id, !.syncs = @ + 1]
        IN  /\ rtdb' = [rtdb EXCEPT ![coll] = Append(@, [id |-> id, data |-> r.doc])]
            /\ nextKey' = nextKey + 1
            /\ IF SyncSkipped
               THEN Proceed(w, Returned([r1 EXCEPT !.synced = "false"]))
               ELSE Continue(w, [r1 EXCEPT !.pc = "sync_get"])
     \/ /\ Proceed(w, Done([r EXCEPT !.pushes = @ + 1, !.exc = "push"], PushFailed(r)))
        /\ UNCHANGED <<rtdb, nextKey>>
  /\ UNCHANGED <<FIREBASE_INITIALIZED, firestore_db, users, sublogs, syncOk, served>>

\* sync_to_firestore: user_ref.get() returns the snapshot or raises (sync returns
\* False). For a snapshot that exists the array is then read with
\* user_doc.get('workoutLogs', []): user_doc is a Firestore DocumentSnapshot, whose
\* get takes the field path alone, so the call with a default raises TypeError in
\* the client library (sync returns False); a snapshot type that accepts the default
\* returns the field and the handler goes on to the write.
SyncGet(w) ==
  LET r == req[w]
      snap == users["alexa_user"]
  IN
  /\ r.pc = "sync_get"
  /\ \/ Continue(w, [r EXCEPT !.pc = "sync_write", !.snap = snap])
     \/ /\ snap.exists
        /\ Proceed(w, Returned([r EXCEPT !.synced = "false", !.snap = snap, !.exc = "TypeError"]))
     \/ Proceed(w, Returned([r EXCEPT !.synced = "false", !.exc = "get"]))
  /\ UNCHANGED <<FIREBASE_INITIALIZED, firestore_db, stores, syncOk, served>>

\* sync_to_firestore: user_ref.update / user_ref.set returns (sync returns True) or
\* raises (sync returns False); then the log function returns.
SyncWrite(w) ==
  LET r == req[w] IN
  /\ r.pc = "sync_write"
  /\ \/ /\ users' = [users EXCEPT !["alexa_user"] = SyncWritten(@, r.snap, r.kind, r.doc, r.id)]
        /\ syncOk' = syncOk \cup {r.id}
        /\ Proceed(w, Returned([r EXCEPT !.synced = "true"]))
     \/ /\ Proceed(w, Returned([r EXCEPT !.synced = "false", !.exc = "write"]))
        /\ UNCHANGED <<users, syncOk>>
  /\ UNCHANGED <<FIREBASE_INITIALIZED, firestore_db, rtdb, nextKey, sublogs, served>>

\* alexa_auth_log: the identity the handler goes on with for a present token
\* (the verified email claim, else the email of the unverified payload, else
\* 'unknown_email').
AuthEmail(token) ==
  IF token.verified
  THEN IF token.email = None THEN "unknown_email" ELSE token.email[1]
  ELSE IF token.payload = None THEN "unknown_email" ELSE token.payload[1]

\* Variant of NotToken that lets every request through.
NotToken_Never(token) == FALSE

\* 'if not token:' on user.get('accessToken')
NotToken(token) == ~token.present

Auth(Toks, Requests) ==
  {[shape |-> "auth", token |-> t, type |-> v.type, name |-> v.name, slots |-> v.slots] :
     t \in Toks, v \in Requests}

AuthRequests == Auth({NoToken, VerifiedToken}, AuthControlRequests) \cup Auth(Tokens, AuthLogRequests)

\* POST /alexa/auth/log, up to its Firestore write
alexa_auth_log(w, Requests) ==
  /\ Accept(w)
  /\ \E request \in Requests :
       LET r0 == [New("alexa_auth_log", "none", request, EmptyDict) EXCEPT
                    !.email = IF request.token.present THEN AuthEmail(request.token) ELSE ""]
           nw == NormWorkout(request.slots)
           nm == NormMeal(request.slots)
           say(tag, end) == Envelope(Speech(tag, <<>>, <<>>, 0), "none", end)
       IN
       IF NotToken(request.token)
       THEN Complete(w, r0, Envelope(Speech("link_account", <<>>, <<>>, 0), "LinkAccount", TRUE))
       ELSE IF request.type = "IntentRequest"
       THEN IF request.name = "AMAZON.LaunchIntent" THEN Complete(w, r0, say("welcome", FALSE))
            ELSE IF request.name = "AMAZON.HelpIntent" THEN Complete(w, r0, say("help", FALSE))
            ELSE IF request.name \in {"AMAZON.StopIntent", "AMAZON.CancelIntent"}
            THEN Complete(w, r0, say("goodbye", TRUE))
            ELSE IF request.name = "LogWorkoutIntent"
            THEN IF nw.exc THEN Complete(w, r0, ErrorEnvelope)
                 ELSE IF firestore_db # "None"
                 THEN Continue(w, [r0 EXCEPT !.pc = "auth_set", !.kind = "workout", !.data = VoiceWorkoutData(nw)])
                 ELSE Complete(w, [r0 EXCEPT !.kind = "workout", !.data = VoiceWorkoutData(nw)], NoResponse)
            ELSE IF request.name = "LogMealIntent"
            THEN IF nm.exc THEN Complete(w, r0, ErrorEnvelope)
                 ELSE IF firestore_db # "None"
                 THEN Continue(w, [r0 EXCEPT !.pc = "auth_set", !.kind = "meal", !.data = VoiceMealData(nm)])
                 ELSE Complete(w, [r0 EXCEPT !.kind = "meal", !.data = VoiceMealData(nm)], say("db_unavailable", TRUE))
            ELSE Complete(w, r0, say("not_sure_help", FALSE))
       ELSE IF request.type = "LaunchRequest" THEN Complete(w, r0, say("welcome", FALSE))
       ELSE IF request.type = "SessionEndedRequest" THEN Complete(w, r0, Envelope(NoSpeech, "none", TRUE))
       ELSE Complete(w, r0, say("not_sure_handle", TRUE))
  /\ UNCHANGED <<FIREBASE_INITIALIZED, firestore_db, stores, syncOk>>

\* alexa_auth_log: users/<email>/<kind>_logs document().set(data) returns or raises
AuthSet(w) ==
  LET r == req[w]
      id == [tag |-> "auto", n |-> Cardinality(sublogs)]
      coll == IF r.kind = "workout" THEN "workout_logs" ELSE "meal_logs"
  IN
  /\ r.pc = "auth_set"
  /\ \/ /\ sublogs' = sublogs \cup {[email |-> r.email, coll |-> coll, id |-> id,
                                      data |-> [r.data EXCEPT !["id"] = id]]}
        /\ Complete(w, [r EXCEPT !.id = id, !.pushed = TRUE, !.pushes = @ + 1],
                    IF r.kind = "workout"
                    THEN Envelope(Speech("workout_logged", r.data["workoutType"], <<>>, r.data["duration"]), "Simple", TRUE)
                    ELSE Envelope(Speech("meal_logged", r.data["mealType"], FoodItemOf(r.data), 0), "Simple", TRUE))
     \/ /\ UNCHANGED sublogs
        /\ Complete(w, [r EXCEPT !.pushes = @ + 1],
                    Envelope(Speech(IF r.kind = "workout" THEN "error_logging_workout" ELSE "error_logging_meal",
                                    <<>>, <<>>, 0), "none", TRUE))
  /\ UNCHANGED <<FIREBASE_INITIALIZED, firestore_db, rtdb, nextKey, users, syncOk, served>>

\* --------------------------------------------------------- account linking
\* The amazonTokens map of a users/<email> document: each key absent or present.
NoAmazonTokens ==
  [accessToken |-> None, refreshToken |-> None, linked |-> None, linkedAt |-> None,
   unlinkedAt |-> None]

AmazonTokens(doc) == IF doc.amazonTokens = None THEN NoAmazonTokens ELSE doc.amazonTokens[1]

\* Variant of MergeSet: a set() without merge, the document becomes the data written.
MergeSet_Whole(doc, fields) == [NoDoc EXCEPT !.exists = TRUE, !.amazonTokens = Some(fields)]

\* Variant of MergeSet that replaces the amazonTokens map (a set without merge).
MergeSet_Replace(doc, fields) == [doc EXCEPT !.exists = TRUE, !.amazonTokens = Some(fields)]

\* user_ref.set({'amazonTokens': fields}, merge=True): the keys written replace the
\* stored ones, every other key of the map and of the document stays; a missing
\* document is created.
MergeSet(doc, fields) ==
  [doc EXCEPT !.exists = TRUE,
              !.amazonTokens =
                 Some([k \in DOMAIN NoAmazonTokens |->
                         IF fields[k] # None THEN fields[k] ELSE AmazonTokens(doc)[k]])]

\* the map alexa_link_account writes from the token endpoint's JSON x at time now
LinkFields(x, now) ==
  [NoAmazonTokens EXCEPT !.accessToken = Some(x.access_token), !.refreshToken = Some(x.refresh_token),
                         !.linked = Some(TRUE), !.linkedAt = Some(now)]

\* Variant of UnlinkFields that records the time and leaves the flag alone.
UnlinkFields_NoFlag(now) == [NoAmazonTokens EXCEPT !.unlinkedAt = Some(now)]

\* the map unlink_alexa_account writes at time now
UnlinkFields(now) == [NoAmazonTokens EXCEPT !.linked = Some(FALSE), !.unlinkedAt = Some(now)]

\* check_alexa_link_status on a snapshot whose field read returns:
\* user_doc.get('amazonTokens', {}).get('linked', False), False for a missing document
IsLinked(doc) ==
  IF doc.exists /\ AmazonTokens(doc).linked # None THEN AmazonTokens(doc).linked[1] ELSE FALSE

\* The Authorization header with what the tokeninfo endpoint answers for its token:
\* info is the status code (0: requests.get raised), email the 'email' of the JSON.
Header(scheme, info, email) == [scheme |-> scheme, info |-> info, email |-> email]

Headers ==
  {Header("none", 0, None), Header("Basic", 0, None), Header("Bearer", 0, None),
   Header("Bearer", 400, None), Header("Bearer", 200, None)}
  \cup {Header("Bearer", 200, Some(e)) : e \in Emails}

Bearer(e) == Header("Bearer", 200, Some(e))

\* Variant of Verify that answers every failed identity check with 403.
Verify_Forbidden(header) ==
  IF header.scheme = "Bearer" /\ header.info = 200 /\ header.email # None
  THEN [ok |-> TRUE, email |-> header.email[1], resp |-> NoResponse]
  ELSE [ok |-> FALSE, email |-> "", resp |-> Json(403, FALSE, "Forbidden", "", NoId)]

\* The identity check the three handlers start with: the e-mail, or the response
\* the handler returns at once.
Verify(header) ==
  IF header.scheme # "Bearer"
  THEN [ok |-> FALSE, email |-> "", resp |-> Json(401, FALSE, "Missing or invalid authorization", "", NoId)]
  ELSE IF header.info = 0
  THEN [ok |-> FALSE, email |-> "", resp |-> Json(500, FALSE, "error", "", NoId)]
  ELSE IF header.info # 200
  THEN [ok |-> FALSE, email |-> "", resp |-> Json(401, FALSE, "Invalid token", "", NoId)]
  ELSE IF header.email = None
  THEN [ok |-> FALSE, email |-> "", resp |-> Json(401, FALSE, "User email not found in token", "", NoId)]
  ELSE [ok |-> TRUE, email |-> header.email[1], resp |-> NoResponse]

\* The answer of the provider's token endpoint: status (0: requests.post raised),
\* body text, and the two tokens of its JSON ("null": key absent, .get gives None).
Exchange(status, text, access_token, refresh_token) ==
  [status |-> status, text |-> text, access_token |-> access_token, refresh_token |-> refresh_token]

NoExchange == Exchange(0, "", "null", "null")

Exchanges ==
  {NoExchange, Exchange(400, "invalid_grant", "null", "null"),
   Exchange(200, "", "A1", "R1"), Exchange(200, "", "A2", "R2"), Exchange(200, "", "null", "null")}

\* Variant of Falsy that takes an empty string for a value.
Falsy_AbsentOnly(d, k) == k \notin DOMAIN d

\* not code or not redirect_uri: a key that is absent or holds ''
Falsy(d, k) == k \notin DOMAIN d \/ d[k] = ""

LinkBody(P, code) ==
  [k \in P |-> IF k = "code" THEN code
              ELSE IF k = "email" THEN "bob@x.org"
              ELSE "https://app/cb"]

LinkBodies ==
  {LinkBody({"code", "redirect_uri"}, "c1"), LinkBody({"code", "redirect_uri"}, ""),
   LinkBody({"redirect_uri"}, "c1"), LinkBody({"code"}, "c1"),
   LinkBody({"code", "redirect_uri", "email"}, "c1")}

\* a request to one of the three account-linking endpoints, arriving at time now
LinkReq(method, header, body, exchange) ==
  [shape |-> "link", method |-> method, header |-> header, body |-> body, exchange |-> exchange]

\* CORS preflight: make_response() with the Access-Control-* headers
Preflight == [NoResponse EXCEPT !.kind = "preflight", !.http = 200]

Early(resp) == [done |-> TRUE, resp |-> resp]

GoOn == [done |-> FALSE, resp |-> NoResponse]

\* Variant of LinkEarly that goes on to the write whatever the token endpoint's status.
LinkEarly_IgnoresStatus(request) ==
  IF request.method = "OPTIONS" THEN Early(Preflight)
  ELSE IF ~Verify(request.header).ok THEN Early(Verify(request.header).resp)
  ELSE IF Falsy(request.body, "code") \/ Falsy(request.body, "redirect_uri")
  THEN Early(Json(400, FALSE, "Missing code or redirect_uri", "", NoId))
  ELSE IF request.exchange.status = 0 THEN Early(Json(500, FALSE, "error", "", NoId))
  ELSE GoOn

\* alexa_link_account up to its Firestore write: the response of each early return
\* (preflight, identity check, missing code or redirect_uri, requests.post raising,
\* a token endpoint status other than 200), or on to the write.
LinkEarly(request) ==
  IF request.method = "OPTIONS" THEN Early(Preflight)
  ELSE IF ~Verify(request.header).ok THEN Early(Verify(request.header).resp)
  ELSE IF Falsy(request.body, "code") \/ Falsy(request.body, "redirect_uri")
  THEN Early(Json(400, FALSE, "Missing code or redirect_uri", "", NoId))
  ELSE IF request.exchange.status = 0 THEN Early(Json(500, FALSE, "error", "", NoId))
  ELSE IF request.exchange.status # 200
  THEN Early(Json(400, FALSE, "Amazon token exchange failed", request.exchange.text, NoId))
  ELSE GoOn

\* unlink_alexa_account up to its Firestore write
UnlinkEarly(request) ==
  IF request.method = "OPTIONS" THEN Early(Preflight)
  ELSE IF ~Verify(request.header).ok THEN Early(Verify(request.header).resp)
  ELSE GoOn

\* jsonify({'success': True, 'isLinked': linked})
StatusOf(linked) == [Json(200, TRUE, "", "", NoId) EXCEPT !.isLinked = Some(linked)]

AcceptLink(w) ==
  /\ req[w].pc = "idle"
  /\ served < MaxLinkReqs
  /\ served' = served + 1

\* the request record of an account-linking handler
\* The requests an account-linking handler sends out: requests.get(tokeninfo) once
\* the header is a Bearer header, and for the link handler requests.post(token_url)
\* once the identity is verified and code and redirect_uri are there.
LinkCalls(op, request) ==
  IF request.method = "OPTIONS" \/ request.header.scheme # "Bearer" THEN <<>>
  ELSE IF /\ op = "alexa_link_account"
          /\ Verify(request.header).ok
          /\ ~Falsy(request.body, "code") /\ ~Falsy(request.body, "redirect_uri")
  THEN <<"tokeninfo", "token">>
  ELSE <<"tokeninfo">>

\* Variant of Linking that takes the identity from an 'email' key of the body.
Linking_TrustsBody(op, request) ==
  [New(op, "none", request, EmptyDict) EXCEPT
     !.email = IF "email" \in DOMAIN request.body THEN request.body["email"]
               ELSE Verify(request.header).email,
     !.prev = "none",
     !.calls = LinkCalls(op, request)]

Linking(op, request) ==
  [New(op, "none", request, EmptyDict) EXCEPT
     !.email = Verify(request.header).email,
     !.prev = IF last.resp.success /\ last.email = Verify(request.header).email
              THEN last.op ELSE "none",
     !.calls = LinkCalls(op, request)]

\* POST /api/alexa/link-account: the tokens are stored when Firestore is there (the
\* set returns, or raises: 500), and success is answered either way.
alexa_link_account(w, Requests) ==
  /\ AcceptLink(w)
  /\ \E request \in Requests :
       LET r == Linking("alexa_link_account", request)
           early == LinkEarly(request)
           ok == Json(200, TRUE, "Account linked successfully", "", NoId)
       IN
       IF early.done
       THEN Complete(w, r, early.resp) /\ UNCHANGED users
       ELSE IF FIREBASE_INITIALIZED /\ firestore_db # "None"
       THEN \/ /\ users' = [users EXCEPT ![r.email] = MergeSet(@, LinkFields(request.exchange, served + 1))]
               /\ Complete(w, r, ok)
            \/ /\ UNCHANGED users
               /\ Complete(w, [r EXCEPT !.exc = "set"], Json(500, FALSE, "error", "", NoId))
       ELSE Complete(w, r, ok) /\ UNCHANGED users
  /\ UNCHANGED <<FIREBASE_INITIALIZED, firestore_db, rtdb, nextKey, sublogs, syncOk>>

\* GET /api/alexa/check-link-status: user_ref.get() returns or raises (500); for a
\* document that exists the map is read with user_doc.get('amazonTokens', {}), the
\* two-argument DocumentSnapshot.get of SyncGet: TypeError (500), or the field.
check_alexa_link_status(w, Requests) ==
  /\ AcceptLink(w)
  /\ \E request \in Requests :
       LET r == Linking("check_alexa_link_status", request)
           v == Verify(request.header)
       IN
       IF ~v.ok
       THEN Complete(w, r, v.resp)
       ELSE IF FIREBASE_INITIALIZED /\ firestore_db # "None"
       THEN \/ Complete(w, r, StatusOf(IsLinked(users[r.email])))
            \/ /\ users[r.email].exists
               /\ Complete(w, [r EXCEPT !.exc = "TypeError"], Json(500, FALSE, "error", "", NoId))
            \/ Complete(w, [r EXCEPT !.exc = "get"], Json(500, FALSE, "error", "", NoId))
       ELSE Complete(w, r, StatusOf(FALSE))
  /\ UNCHANGED <<FIREBASE_INITIALIZED, firestore_db, stores, syncOk>>

\* POST /api/alexa/unlink-account: the merge-set returns or raises (500); without
\* Firestore success is answered and nothing is written.
unlink_alexa_account(w, Requests) ==
  /\ AcceptLink(w)
  /\ \E request \in Requests :
       LET r == Linking("unlink_alexa_account", request)
           early == UnlinkEarly(request)
       IN
       IF early.done
       THEN Complete(w, r, early.resp) /\ UNCHANGED users
       ELSE IF FIREBASE_INITIALIZED /\ firestore_db # "None"
       THEN \/ /\ users' = [users EXCEPT ![r.email] = MergeSet(@, UnlinkFields(served + 1))]
               /\ Complete(w, r, Json(200, TRUE, "Account unlinked successfully", "", NoId))
            \/ /\ UNCHANGED users
               /\ Complete(w, [r EXCEPT !.exc = "set"], Json(500, FALSE, "error", "", NoId))
       ELSE /\ Complete(w, r, Json(200, TRUE, "Account unlinked successfully (Firebase not initialized)", "", NoId))
            /\ UNCHANGED users
  /\ UNCHANGED <<FIREBASE_INITIALIZED, firestore_db, rtdb, nextKey, sublogs, syncOk>>

\* GET /api/workout-logs or /api/meal-logs: test data when Firebase is not
\* initialised; else logs_ref.get() returns the records (each with its key as id,
\* sorted) or raises (500). The handler makes one store call, a read.
ListLogs(w, op, coll, test) ==
  LET r == New(op, "none", [shape |-> "list"], EmptyDict) IN
  /\ req[w].pc = "idle"
  /\ IF ~FIREBASE_INITIALIZED \/ TEST_MODE
     THEN Complete(w, r, Listing(test))
     ELSE \/ Complete(w, r, Listing(SortByTimestampDesc(rtdb[coll])))
          \/ Complete(w, [r EXCEPT !.exc = "get"], Json(500, FALSE, "error", "", NoId))
  /\ UNCHANGED <<FIREBASE_INITIALIZED, firestore_db, stores, syncOk, served>>

get_workout_logs(w) == ListLogs(w, "get_workout_logs", "workout_logs", TestWorkoutLogs)

get_meal_logs(w) == ListLogs(w, "get_meal_logs", "meal_logs", TestMealLogs)

\* One request at a time, every endpoint and every input.
Next ==
  \/ log_workout("w1", WorkoutBodies)
  \/ log_meal("w1", MealBodies)
  \/ alexa_log("w1", DirectBodies, VoiceRequests)
  \/ alexa_auth_log("w1", AuthRequests)
  \/ Push("w1")
  \/ SyncGet("w1")
  \/ SyncWrite("w1")
  \/ AuthSet("w1")

Spec == Init /\ [][Next]_vars

\* Two requests in flight: the log operations under every interleaving of their
\* store calls.
ConcWorkoutBodies == {Body(WSet, src, "") : src \in Sources} \cup {Body(WSet \ {"duration"}, "web", "")}

ConcMealBodies == {Body(MSet, "web", "")}

ConcVoiceRequests == {Voice("IntentRequest", "LogMealIntent", Slots1("FoodItem", SV(S_oatmeal)))}

NextConc ==
  \E w \in Workers :
    \/ log_workout(w, ConcWorkoutBodies)
    \/ log_meal(w, ConcMealBodies)
    \/ alexa_log(w, {}, ConcVoiceRequests)
    \/ Push(w)
    \/ SyncGet(w)
    \/ SyncWrite(w)

SpecConc == Init /\ [][NextConc]_vars

\* Appends of two workers and the list endpoints: records with equal and with
\* different timestamps.
At(body, ts) == [body EXCEPT !["timestamp"] = ts]

ListWorkoutBodies == {At(Body(WSet, "web", ""), Timestamps[i]) : i \in DOMAIN Timestamps}

ListMealBodies == {At(Body(MSet, "web", ""), Timestamps[i]) : i \in DOMAIN Timestamps}

NextList ==
  \E w \in Workers :
    \/ log_workout(w, ListWorkoutBodies)
    \/ log_meal(w, ListMealBodies)
    \/ Push(w)
    \/ SyncGet(w)
    \/ SyncWrite(w)
    \/ get_workout_logs(w)
    \/ get_meal_logs(w)

SpecList == Init /\ [][NextList]_vars

\* The account-linking endpoints, one request at a time.
GoodBody == LinkBody({"code", "redirect_uri"}, "c1")

NoBody == LinkBody({}, "")

LinkRequests ==
  {LinkReq("OPTIONS", Header("none", 0, None), NoBody, NoExchange)}
  \cup {LinkReq("POST", h, GoodBody, Exchange(200, "", "A1", "R1")) : h \in Headers}
  \cup {LinkReq("POST", Bearer("ann@x.org"), b, Exchange(200, "", "A1", "R1")) : b \in LinkBodies}
  \cup {LinkReq("POST", Bearer(e), GoodBody, x) : e \in Emails, x \in Exchanges}

StatusRequests == {LinkReq("GET", h, NoBody, NoExchange) : h \in Headers}

UnlinkRequests ==
  {LinkReq("OPTIONS", Header("none", 0, None), NoBody, NoExchange)}
  \cup {LinkReq("POST", h, NoBody, NoExchange) : h \in Headers}

NextLink ==
  \/ alexa_link_account("w1", LinkRequests)
  \/ check_alexa_link_status("w1", StatusRequests)
  \/ unlink_alexa_account("w1", UnlinkRequests)

SpecLink == Init /\ [][NextLink]_vars

\* Every endpoint that answers a direct caller, one request at a time.
DirectWorkoutBodies == ConcWorkoutBodies

DirectMealBodies == {Body(MSet, "web", ""), Body(MSet \ {"mealType"}, "alexa", "")}

DirectLogBodies == {Body(WSet \cup {"logType"}, "web", "sleep"), Body(MSet \cup {"logType"}, "alexa", "meal")}

DirectLinkRequests ==
  {LinkReq("POST", h, GoodBody, Exchange(200, "", "A1", "R1")) :
     h \in {Header("Basic", 0, None), Header("Bearer", 0, None), Header("Bearer", 400, None),
            Header("Bearer", 200, None)}}
  \cup {LinkReq("POST", Bearer("ann@x.org"), LinkBody({"redirect_uri"}, "c1"), NoExchange)}
  \cup {LinkReq("POST", Bearer("ann@x.org"), GoodBody, x) :
          x \in {NoExchange, Exchange(400, "invalid_grant", "null", "null"), Exchange(200, "", "A1", "R1")}}

DirectStatusRequests ==
  {LinkReq("GET", h, NoBody, NoExchange) :
     h \in {Header("none", 0, None), Header("Bearer", 400, None), Bearer("ann@x.org")}}

DirectUnlinkRequests ==
  {LinkReq("POST", h, NoBody, NoExchange) :
     h \in {Header("none", 0, None), Header("Bearer", 0, None), Bearer("ann@x.org")}}

NextDirect ==
  \/ log_workout("w1", DirectWorkoutBodies)
  \/ log_meal("w1", DirectMealBodies)
  \/ alexa_log("w1", DirectLogBodies, {})
  \/ Push("w1")
  \/ SyncGet("w1")
  \/ SyncWrite("w1")
  \/ get_workout_logs("w1")
  \/ get_meal_logs("w1")
  \/ alexa_link_account("w1", DirectLinkRequests)
  \/ check_alexa_link_status("w1", DirectStatusRequests)
  \/ unlink_alexa_account("w1", DirectUnlinkRequests)

SpecDirect == Init /\ [][NextDirect]_vars

\* get_slot_value on its own: a call with a slot bag, an alias list and a default.
SlotBags ==
  {Dict(EmptyDict), NullBag,
   Slots1("WorkoutType", NullEntry),
   Slots1("WorkoutType", IV(5)),
   Slots1("WorkoutType", SV(S_Running)),
   Slots1("workoutType", SV(S_Running)),
   Slots2("WorkoutType", SV(S_empty), "workoutType", SV(S_Running)),
   Slots2("WorkoutType", NoValue, "workoutType", SV(S_running)),
   Slots2("WorkoutType", SV(S_running), "workoutType", SV(S_Running))}

AliasLists ==
  {<<>>, <<"WorkoutType">>, <<"workoutType">>, <<"WorkoutType", "workoutType">>,
   <<"workoutType", "WorkoutType">>, <<"Duration", "duration">>}

Defaults == {SV(S_empty), SV(S_cardio), SV(S_snack)}

SlotCall(slots, names, default) ==
  [shape |-> "slots", slots |-> slots, names |-> names, default |-> default]

\* One call of get_slot_value; what it returns is kept in last.data["value"], an
\* exception that leaves it in last.exc.
CallGetSlotValue ==
  /\ \E slots \in SlotBags, names \in AliasLists, default \in Defaults :
       LET result == get_slot_value(slots, names, default) IN
       last' = [New("get_slot_value", "get_slot_value", SlotCall(slots, names, default),
                    [k \in {"value"} |-> result.val])
                  EXCEPT !.pc = "done", !.exc = IF result.exc THEN "raised" ELSE "none"]
  /\ UNCHANGED <<FIREBASE_INITIALIZED, firestore_db, stores, req, syncOk, served>>

NextSlot == CallGetSlotValue

SpecSlot == Init /\ [][NextSlot]_vars

\* ================================================================== claims
RequiredOf(fn) == IF fn \in {"log_workout", "log_direct_workout"} THEN WSet ELSE MSet

\* last is a completed request that ran one of the four log functions
LogDone == last.pc = "done" /\ last.fn # "none"

Validated == \A f \in RequiredOf(last.fn) : f \in DOMAIN last.data

\* the push of the completed request was attempted and raised
PushRaised == LogDone /\ last.pushes = 1 /\ ~last.pushed

FromAlexa == Get(last.data, "source") = Some("alexa")

\* C1: in each of the four log functions, when the push to the append store raises
\* for a validated event, a source of 'alexa' gives success with the placeholder
\* identifier 'temp_id' and any other source gives a failure carrying the store error.
C1_Degradation ==
  PushRaised =>
    /\ Validated
    /\ IF FromAlexa
       THEN last.res.success /\ last.res.id = TEMP_ID
       ELSE ~last.res.success /\ last.res.msg = "firebase_error" /\ last.res.id = NoId

C1_Witness ==
  /\ PushRaised
  /\ last.fn = "log_direct_meal"
  /\ last.res.success /\ last.res.id = TEMP_ID

\* C2: every validated event whose source is 'alexa' gets a success result from its
\* log function in every condition of the store, FIREBASE_INITIALIZED false included.
C2_VoiceAlwaysSucceeds ==
  (LogDone /\ Validated /\ FromAlexa) => last.res.success

\* C3 as claimed: on POST /api/log-workout and POST /api/log-meal every request whose
\* push raises is answered success=false with HTTP 500, whatever its source field.
C3_EveryFailureIs500 ==
  (PushRaised /\ last.op \in {"log_workout", "log_meal"}) =>
    (~last.resp.success /\ last.resp.http = 500)

\* C3 amended: on the two REST create endpoints a request whose push raises is
\* answered success=false with HTTP 500 when its source is not 'alexa', and
\* success=true with the identifier 'temp_id' and HTTP 200 when its source is 'alexa'.
C3_FailureIs500UnlessAlexa ==
  (PushRaised /\ last.op \in {"log_workout", "log_meal"}) =>
    IF FromAlexa
    THEN last.resp.success /\ last.resp.http = 200 /\ last.resp.id = TEMP_ID
    ELSE ~last.resp.success /\ last.resp.http = 500 /\ last.resp.kind = "json"

C3_Witness ==
  /\ PushRaised
  /\ last.op = "log_workout"
  /\ ~FromAlexa
  /\ last.resp.http = 500

VoiceLogIntent(name) ==
  /\ last.pc = "done"
  /\ last.op = "alexa_log"
  /\ last.req.shape = "voice"
  /\ last.req.type = "IntentRequest"
  /\ last.req.name = name

\* C4: on /api/alexa/log with the store initialised, every LogWorkoutIntent whose slots
\* normalise gives a workout event that carries an activity name, passes the required-
\* field validation of log_direct_workout and is pushed to the append store.
C4_VoiceWorkoutIsStored ==
  (VoiceLogIntent("LogWorkoutIntent") /\ ~NormWorkout(last.req.slots).exc /\ FIREBASE_INITIALIZED) =>
    /\ "activityName" \in DOMAIN last.data
    /\ last.res.success
    /\ last.pushes = 1

Confirms == last.resp.kind = "envelope" /\ last.resp.speech.tag \in {"workout_logged", "meal_logged"}

\* C5: a voice webhook speaks a 'logged successfully' confirmation only when the log
\* operation succeeded (the log function's result is success; on /alexa/auth/log the
\* Firestore write returned).
C5_ConfirmationOnlyOnSuccess ==
  (last.pc = "done" /\ last.op \in {"alexa_log", "alexa_auth_log"} /\ Confirms) =>
    IF last.op = "alexa_log" THEN last.res.success ELSE last.pushed

\* C6: every voice envelope sent to /api/alexa/log or /alexa/auth/log is answered with
\* HTTP 200 and an envelope holding a version, a non-empty outputSpeech text and a
\* shouldEndSession flag.
C6_AlwaysAnEnvelope ==
  (last.pc = "done" /\ last.req.shape \in {"voice", "auth"}) =>
    /\ last.resp.kind = "envelope"
    /\ last.resp.http = 200
    /\ last.resp.version = "1.0"
    /\ last.resp.speech.tag # ""
    /\ last.resp.end \in BOOLEAN

MissingSome(x) == x.fn # "none" /\ \E f \in RequiredOf(x.fn) : f \notin DOMAIN x.data

C7_Rejected ==
  (last.pc = "done" /\ MissingSome(last)) =>
    /\ ~last.res.success
    /\ last.res.msg = "Missing required field"
    /\ last.res.field \in RequiredOf(last.fn)
    /\ last.res.field \notin DOMAIN last.data
    /\ IsRest(last.fn) => (last.resp.http = 400 /\ ~last.resp.success /\ last.resp.field = last.res.field)
    /\ last.pushes = 0 /\ last.syncs = 0

C7_NoWrite ==
  (served' = served + 1 /\ last'.pc = "done" /\ MissingSome(last')) =>
    (rtdb' = rtdb /\ users' = users /\ sublogs' = sublogs /\ nextKey' = nextKey)

\* C7: an event that lacks a required field of its kind is rejected by its log function
\* with a validation error naming a missing field (HTTP 400 on the REST endpoints), no
\* push or sync is attempted, and the step that rejects it changes no store.
C7_ValidationRejects == [](C7_Rejected) /\ [][C7_NoWrite]_vars

C7_Witness ==
  /\ last.pc = "done" /\ MissingSome(last)
  /\ last.fn = "log_workout"
  /\ last.res.field = "timestamp"
  /\ last.resp.http = 400
  /\ nextKey > 0

CollOf(x) == IF x.kind = "workout" THEN "workout_logs" ELSE "meal_logs"

Stored(x) == \E i \in DOMAIN rtdb[CollOf(x)] : rtdb[CollOf(x)][i] = [id |-> x.id, data |-> x.doc]

\* C8: once the push has returned, the log function returns success with the pushed
\* key whether sync_to_firestore returned True or False (it returns one of the two),
\* and the pushed record stays in the append store.
C8_SyncDoesNotDecide ==
  (LogDone /\ last.pushed) =>
    /\ last.res.success
    /\ last.res.id = last.id
    /\ last.id.tag = "key"
    /\ last.synced \in {"true", "false"}
    /\ Stored(last)

C8_Witness ==
  /\ LogDone /\ last.pushed
  /\ last.synced = "false"
  /\ last.res.success
  /\ FIREBASE_INITIALIZED

AggLogs(d, kind) ==
  LET f == IF kind = "workout" THEN d.workoutLogs ELSE d.mealLogs
  IN  IF f = None THEN <<>> ELSE f[1]

OrderOf(x) ==
  x.fn # "none" =>
    /\ x.pushes <= 1 /\ x.syncs <= 1
    /\ x.syncs = 1 => (x.pushes = 1 /\ x.pushed /\ x.id.tag = "key" /\ Stored(x))
    /\ x.pc \in {"sync_get", "sync_write"} => x.syncs = 1
    /\ x.synced # "none" => x.syncs = 1
    /\ (x.pc = "done" /\ x.pushed) => x.syncs = 1
    /\ MissingSome(x) => (x.pushes = 0 /\ x.syncs = 0)

\* C9: in one log request the sync is attempted only after that request's push has
\* returned, with the key the push assigned; it is not attempted after a failed push
\* or a failed validation; a request pushes at most once and syncs at most once.
C9_AppendBeforeSync ==
  /\ \A w \in Workers : OrderOf(req[w])
  /\ OrderOf(last)
  /\ \A id \in syncOk : \E c \in DOMAIN rtdb : \E i \in DOMAIN rtdb[c] : rtdb[c][i].id = id
  /\ \A k \in {"workout", "meal"} :
       \A i \in DOMAIN AggLogs(users["alexa_user"], k) :
         AggLogs(users["alexa_user"], k)[i].id \in syncOk

C9_Witness ==
  /\ LogDone /\ last.syncs = 1 /\ last.synced = "true"
  /\ \E w \in Workers : req[w].pc = "sync_write" /\ req[w].syncs = 1

\* a step in which the sync of worker w writes the aggregate document
SyncWrites(w) == req[w].pc = "sync_write" /\ req[w].id \in syncOk' /\ req[w].id \notin syncOk

\* C10: a sync writes back the sequence it read earlier with its own entry appended,
\* whatever other syncs have written since, so two interleaved syncs of one kind can
\* both return True and leave only one of the two entries in the aggregate sequence.
C10_WriteBackFromSnapshot ==
  [][\A w \in Workers :
       SyncWrites(w) =>
         LET r == req[w]
             written == AggLogs(users'["alexa_user"], r.kind)
         IN  /\ Len(written) = Len(AggLogs(r.snap, r.kind)) + 1
             /\ SubSeq(written, 1, Len(written) - 1) = AggLogs(r.snap, r.kind)
             /\ written[Len(written)].id = r.id]_vars

C10_LostUpdate ==
  \E c \in DOMAIN rtdb : \E i, j \in DOMAIN rtdb[c] :
    LET k == IF c = "workout_logs" THEN "workout" ELSE "meal"
        agg == AggLogs(users["alexa_user"], k)
        In(id) == \E n \in DOMAIN agg : agg[n].id = id
    IN  /\ i # j
        /\ rtdb[c][i].id \in syncOk /\ rtdb[c][j].id \in syncOk
        /\ In(rtdb[c][j].id) /\ ~In(rtdb[c][i].id)
        /\ Len(agg) = 1
        /\ \A w \in Workers : req[w].pc = "idle"

\* the identifiers of a sequence of records or entries, in order
Ids(seq) == [i \in DOMAIN seq |-> seq[i].id]

\* a store call (push, user_ref.get, user_ref.update/set) of request x raised
StoreRaised(x) == x.exc \in {"push", "get", "write"}

\* C11: with one request at a time, Firestore initialised and no store call raising
\* (the earlier syncs returned True and no store call of the request just completed
\* raised), the aggregate document holds one entry per record of the append store,
\* for each kind and in append order.
C11_AggregateMirrorsStore ==
  (/\ LogDone /\ last.pushed /\ ~SyncSkipped /\ ~StoreRaised(last)
   /\ \A c \in DOMAIN rtdb : \A i \in DOMAIN rtdb[c] :
        rtdb[c][i].id # last.id => rtdb[c][i].id \in syncOk)
  => /\ Ids(AggLogs(users["alexa_user"], "workout")) = Ids(rtdb["workout_logs"])
     /\ Ids(AggLogs(users["alexa_user"], "meal")) = Ids(rtdb["meal_logs"])

\* last is a completed list request of collection coll that answered with records
ListDone(coll) ==
  /\ last.pc = "done"
  /\ last.op = (IF coll = "workout_logs" THEN "get_workout_logs" ELSE "get_meal_logs")
  /\ last.resp.success

Quiet == \A w \in Workers : req[w].pc = "idle"

\* every record of the append store, as (collection, position)
Slots == UNION {{<<c, i>> : i \in DOMAIN rtdb[c]} : c \in DOMAIN rtdb}

\* C12: a request whose push returned answers with the key under which its record is
\* stored; a list request made after the appends (no request in flight) returns every
\* record of its collection under that key; and no two records of the append store
\* share a key, equal events and appends of two concurrent requests included.
C12_AppendThenList ==
  /\ (LogDone /\ last.pushed) => (last.res.id = last.id /\ Stored(last))
  /\ \A c \in DOMAIN rtdb :
       (ListDone(c) /\ FIREBASE_INITIALIZED /\ Quiet) =>
         \A i \in DOMAIN rtdb[c] : \E j \in DOMAIN last.resp.logs : last.resp.logs[j] = rtdb[c][i]
  /\ \A p, q \in Slots : p # q => rtdb[p[1]][p[2]].id # rtdb[q[1]][q[2]].id

C12_Witness ==
  /\ ListDone("workout_logs") /\ Quiet
  /\ Len(rtdb["workout_logs"]) = 2
  /\ rtdb["workout_logs"][1].data = rtdb["workout_logs"][2].data
  /\ rtdb["workout_logs"][1].id # rtdb["workout_logs"][2].id
  /\ Len(last.resp.logs) = 2

\* the position at which the record listed as x was inserted into collection c
InsertedAt(c, x) == CHOOSE i \in DOMAIN rtdb[c] : rtdb[c][i].id = x.id

\* the listing holds the records of collection c, each once
ListsAll(c, logs) ==
  /\ Len(logs) = Len(rtdb[c])
  /\ \A i \in DOMAIN rtdb[c] : \E j \in DOMAIN logs : logs[j] = rtdb[c][i]

\* C13: a list request answers with all records of its kind ordered by timestamp
\* descending, and of two records with the same timestamp the one inserted later
\* comes first.
C13_NewestFirst ==
  \A c \in DOMAIN rtdb :
    (ListDone(c) /\ FIREBASE_INITIALIZED /\ Quiet) =>
      LET logs == last.resp.logs IN
      /\ ListsAll(c, logs)
      /\ \A j, k \in DOMAIN logs :
           j < k => \/ TsKey(logs[j]) > TsKey(logs[k])
                    \/ /\ TsKey(logs[j]) = TsKey(logs[k])
                       /\ InsertedAt(c, logs[j]) > InsertedAt(c, logs[k])

\* last is a completed request of handler op
Did(op) == last.pc = "done" /\ last.op = op

LinkSucceeded == Did("alexa_link_account") /\ last.resp.success

UnlinkSucceeded == Did("unlink_alexa_account") /\ last.resp.success

\* the stored LinkState of the identity of the last request
LinkState == AmazonTokens(users[last.email])

\* this step is a status query of the identity of the last request, and its store
\* read returns
StatusNext ==
  /\ served' = served + 1
  /\ last'.op = "check_alexa_link_status"
  /\ Verify(last'.req.header).ok /\ last'.email = last.email
  /\ last'.exc # "get"

C14_Persisted ==
  LinkSucceeded =>
    /\ users[last.email].exists
    /\ LinkState.linked = Some(TRUE)
    /\ LinkState.accessToken = Some(last.req.exchange.access_token)
    /\ LinkState.refreshToken = Some(last.req.exchange.refresh_token)
    /\ LinkState.linkedAt # None

C14_StatusTrue == (LinkSucceeded /\ StatusNext) => last'.resp.isLinked = Some(TRUE)

\* C14: after a link request answered success, the identity's document holds
\* linked = true, the two tokens of the code exchange and a linkedAt timestamp, and a
\* status query of that identity made next answers isLinked = true.
C14_LinkPersists == [](C14_Persisted) /\ [][C14_StatusTrue]_vars

\* this step completes a request of handler op with a success answer
Succeeds(op) == served' = served + 1 /\ last'.op = op /\ last'.resp.success

C15_Step ==
  /\ (UnlinkSucceeded /\ StatusNext) => last'.resp.isLinked = Some(FALSE)
  /\ Succeeds("unlink_alexa_account") =>
       (users[last'.email].exists => users'[last'.email].exists)
  /\ Succeeds("alexa_link_account") =>
       LET t == AmazonTokens(users'[last'.email]) IN
       /\ t.accessToken = Some(last'.req.exchange.access_token)
       /\ t.refreshToken = Some(last'.req.exchange.refresh_token)
       /\ t.linked = Some(TRUE)
  /\ (LinkSucceeded /\ StatusNext) => last'.resp.isLinked = Some(TRUE)

\* C15: over any sequence of link and unlink requests of an identity, a status query
\* made next after a successful unlink answers false and one made next after a
\* successful link answers true; an unlink keeps the identity's document; a
\* successful link leaves the token pair of its own exchange in the document.
C15_LinkCycle == [][C15_Step]_vars

\* the key holds a token (it is present and not null)
HasToken(v) == v # None /\ v # Some("null")

\* C16: in every state each identity's document holds an accessToken or a
\* refreshToken only while its linked flag is true (an unlink leaves no token behind).
C16_TokensOnlyWhileLinked ==
  \A e \in Emails :
    LET t == AmazonTokens(users[e]) IN
    (HasToken(t.accessToken) \/ HasToken(t.refreshToken)) => t.linked = Some(TRUE)

\* this step is a request to the unlink endpoint (whatever it answers)
UnlinkStep == served' = served + 1 /\ last'.op = "unlink_alexa_account"

C17_Frame ==
  UnlinkStep =>
    /\ \A d \in DocIds \ {last'.email} : users'[d] = users[d]
    /\ rtdb' = rtdb /\ sublogs' = sublogs /\ nextKey' = nextKey
    /\ last'.email \in Emails =>
         LET old == users[last'.email]
             new == users'[last'.email]
         IN  /\ new.workoutLogs = old.workoutLogs /\ new.mealLogs = old.mealLogs
             /\ AmazonTokens(new).accessToken = AmazonTokens(old).accessToken
             /\ AmazonTokens(new).refreshToken = AmazonTokens(old).refreshToken
             /\ AmazonTokens(new).linkedAt = AmazonTokens(old).linkedAt
             /\ new # old =>
                  /\ AmazonTokens(new).linked = Some(FALSE)
                  /\ AmazonTokens(new).unlinkedAt = Some(served')
             /\ (last'.resp.success /\ FIREBASE_INITIALIZED) => new # old

UnlinkServed ==
  /\ Did("unlink_alexa_account")
  /\ last.req.method = "POST"
  /\ Verify(last.req.header).ok
  /\ last.exc # "set"

\* C18: every unlink request of a verified identity whose write does not raise is
\* answered success and leaves linked = false, whatever the identity's state before
\* it: never linked, linked, or unlinked by the request just before.
C18_UnlinkIdempotent ==
  UnlinkServed =>
    /\ last.resp.success /\ last.resp.http = 200
    /\ ~IsLinked(users[last.email])
    /\ FIREBASE_INITIALIZED => AmazonTokens(users[last.email]).linked = Some(FALSE)

\* link, unlink, unlink: the second unlink in a row has succeeded
C18_Witness ==
  /\ UnlinkServed /\ last.resp.success
  /\ last.prev = "unlink_alexa_account"
  /\ AmazonTokens(users[last.email]).linkedAt = Some(served - 2)
  /\ AmazonTokens(users[last.email]).unlinkedAt = Some(served)
  /\ AmazonTokens(users[last.email]).linked = Some(FALSE)

\* x is a link request that reached the code exchange, and the token endpoint
\* answered it with a status other than 200
ExchangeFailed(x) ==
  /\ x.op = "alexa_link_account"
  /\ x.req.method = "POST"
  /\ Verify(x.req.header).ok
  /\ ~Falsy(x.req.body, "code") /\ ~Falsy(x.req.body, "redirect_uri")
  /\ x.req.exchange.status \notin {0, 200}

C19_Answer ==
  (last.pc = "done" /\ ExchangeFailed(last)) =>
    /\ last.resp.kind = "json" /\ ~last.resp.success
    /\ last.resp.msg = "Amazon token exchange failed"
    /\ last.resp.field = last.req.exchange.text

C19_NoWrite == (served' = served + 1 /\ ExchangeFailed(last')) => users' = users

\* C19: a link request whose code exchange is answered with a non-success status gets
\* an error whose message carries the upstream response body, and the step that
\* answers it leaves every document, the caller's LinkState included, as it was.
C19_FailedExchange == [](C19_Answer) /\ [][C19_NoWrite]_vars

C19_Witness ==
  /\ last.pc = "done" /\ ExchangeFailed(last)
  /\ last.resp.field = "invalid_grant"
  /\ LinkState.accessToken = Some("A1") /\ LinkState.linked = Some(TRUE)

\* last is a completed request of a direct caller; each error kind below is the first
\* check of its handler that the request fails
DirectDone == last.pc = "done" /\ last.req.shape \in {"rest", "direct", "list", "link"}

IsLog == last.req.shape \in {"rest", "direct"}

IsLink == last.req.shape = "link" /\ last.req.method # "OPTIONS"

ValidationError ==
  \/ IsLog /\ last.fn = "none"
  \/ IsLog /\ MissingSome(last)
  \/ /\ IsLink /\ last.op = "alexa_link_account" /\ Verify(last.req.header).ok
     /\ (Falsy(last.req.body, "code") \/ Falsy(last.req.body, "redirect_uri"))

AuthError ==
  /\ IsLink
  /\ \/ last.req.header.scheme # "Bearer"
     \/ last.req.header.info \notin {0, 200}
     \/ last.req.header.info = 200 /\ last.req.header.email = None

\* the append store is not there or its call raised; the Firestore call of an
\* account-linking handler raised
StoreFailure ==
  \/ IsLog /\ last.fn # "none" /\ ~MissingSome(last) /\ (~FIREBASE_INITIALIZED \/ last.exc = "push")
  \/ last.req.shape = "list" /\ last.exc = "get"
  \/ IsLink /\ last.exc \in {"get", "set"}

\* the request to the tokeninfo endpoint or to the token endpoint raised
ProviderRaised ==
  /\ IsLink
  /\ \/ last.req.header.scheme = "Bearer" /\ last.req.header.info = 0
     \/ /\ last.op = "alexa_link_account" /\ Verify(last.req.header).ok
        /\ ~Falsy(last.req.body, "code") /\ ~Falsy(last.req.body, "redirect_uri")
        /\ last.req.exchange.status = 0

Answers(http) ==
  /\ last.resp.http = http
  /\ last.resp.kind = "json" /\ ~last.resp.success /\ last.resp.msg # ""

StatusServed ==
  /\ Did("check_alexa_link_status")
  /\ Verify(last.req.header).ok
  /\ last.exc # "get"

C21_Answer ==
  StatusServed =>
    /\ last.resp.kind = "json" /\ last.resp.success /\ last.resp.http = 200
    /\ last.resp.isLinked = Some(IsLinked(users[last.email]))

C21_ReadOnly ==
  (served' = served + 1 /\ last'.op = "check_alexa_link_status") =>
    (users' = users /\ rtdb' = rtdb /\ sublogs' = sublogs /\ nextKey' = nextKey)

\* C21: a status query of a verified identity is answered without error, with
\* isLinked = false when the identity has no document or its document has no
\* amazonTokens map or no linked key in it, and with the stored linked value
\* otherwise; the query changes no stored state.
C21_StatusQuery == [](C21_Answer) /\ [][C21_ReadOnly]_vars

\* this step is a request to one of the three account-linking endpoints
LinkOpStep ==
  /\ served' = served + 1
  /\ last'.op \in {"alexa_link_account", "check_alexa_link_status", "unlink_alexa_account"}

C22_Unauthorized ==
  (last.pc = "done" /\ AuthError) =>
    /\ Answers(401)
    /\ \A i \in DOMAIN last.calls : last.calls[i] # "token"

C22_ActsOnVerified ==
  LinkOpStep =>
    /\ ~Verify(last'.req.header).ok => users' = users
    /\ Verify(last'.req.header).ok =>
         \A d \in DocIds \ {Verify(last'.req.header).email} : users'[d] = users[d]

\* C22: a link, status or unlink request whose Authorization header is missing or not
\* a Bearer header, whose token the introspection endpoint answers with a non-success
\* status, or whose introspection result has no email is answered 401, sends no
\* request to the token endpoint and changes no document; a request that passes the
\* check changes no document other than that of the email of its verified token,
\* whatever identity its body names.
C22_VerifiedFirst == [](C22_Unauthorized) /\ [][C22_ActsOnVerified]_vars

\* an unverified link request was turned away while an identity is linked; and a
\* verified request whose body names another identity has been served
C22_Witness ==
  /\ last.pc = "done" /\ AuthError /\ last.op = "alexa_link_account"
  /\ last.req.header.info = 400
  /\ last.calls = <<"tokeninfo">>
  /\ AmazonTokens(users["ann@x.org"]).linked = Some(TRUE)
  /\ ~users["bob@x.org"].exists

\* this step is a link request answered with success
LinkStep ==
  /\ served' = served + 1
  /\ last'.op = "alexa_link_account" /\ last'.req.method = "POST"
  /\ last'.resp.success

C23_Frame ==
  LinkStep =>
    LET e == Verify(last'.req.header).email IN
    /\ \A d \in DocIds \ {e} : users'[d] = users[d]
    /\ users'[e].workoutLogs = users[e].workoutLogs
    /\ users'[e].mealLogs = users[e].mealLogs
    /\ users'[e] # users[e] =>
         AmazonTokens(users'[e]).unlinkedAt = AmazonTokens(users[e]).unlinkedAt
    /\ rtdb' = rtdb /\ sublogs' = sublogs /\ nextKey' = nextKey

\* C23: a link answered with success changes nothing but the amazonTokens map of the
\* document of the verified email, and that by merging: the log fields of that
\* document, the key of the map the link does not write (unlinkedAt), every other
\* document (the aggregate with its log sequences among them), the append store and
\* the per-identity log collections are as they were.
C23_LinkFrame == [][C23_Frame]_vars

\* the last request linked an identity that had been unlinked before, while the
\* aggregate document holds a log sequence
C23_Witness ==
  /\ last.pc = "done" /\ last.op = "alexa_link_account" /\ last.resp.success
  /\ AmazonTokens(users[last.email]).linkedAt = Some(served)
  /\ AmazonTokens(users[last.email]).unlinkedAt # None
  /\ users["alexa_user"].exists
  /\ users["alexa_user"].workoutLogs # None

\* a voice envelope of /api/alexa/log that is not one of the two log intents
Control(request) ==
  /\ request.shape = "voice"
  /\ ~(request.type = "IntentRequest" /\ request.name \in {"LogWorkoutIntent", "LogMealIntent"})

\* the text and the shouldEndSession flag the claim gives for a control request
ControlOutcome(request) ==
  IF request.type = "LaunchRequest" THEN <<"welcome", FALSE>>
  ELSE IF request.type = "SessionEndedRequest" THEN <<"goodbye", TRUE>>
  ELSE IF request.type = "IntentRequest" THEN <<"unrecognized", FALSE>>
  ELSE <<"unhandled", FALSE>>

C24_Answer ==
  (Did("alexa_log") /\ Control(last.req)) =>
    /\ last.resp.kind = "envelope" /\ last.resp.http = 200
    /\ <<last.resp.speech.tag, last.resp.end>> = ControlOutcome(last.req)
    /\ last.pushes = 0 /\ last.syncs = 0

C24_NoWrite ==
  (served' = served + 1 /\ last'.pc = "done" /\ last'.op = "alexa_log" /\ Control(last'.req)) =>
    (rtdb' = rtdb /\ users' = users /\ sublogs' = sublogs /\ nextKey' = nextKey)

\* C24: on /api/alexa/log the request type alone fixes the answer to a request that is
\* not a log intent: LaunchRequest the welcome text with the session open,
\* SessionEndedRequest the goodbye text with the session ended, an IntentRequest with
\* another name the 'unrecognized' text with the session open, any other type the
\* 'unhandled' text with the session open; none of them calls the append store or
\* sync_to_firestore, and the stores are as before.
C24_ControlResponses == [](C24_Answer) /\ [][C24_NoWrite]_vars

\* an intent that is not a log intent was answered after a record had been stored
C24_Witness ==
  /\ Did("alexa_log") /\ Control(last.req)
  /\ last.req.type = "IntentRequest" /\ last.req.name = "PlayMusicIntent"
  /\ last.resp.speech.tag = "unrecognized" /\ ~last.resp.end
  /\ Len(rtdb["workout_logs"]) > 0

\* the intent names alexa_auth_log has a branch for
AuthIntents ==
  {"AMAZON.LaunchIntent", "AMAZON.HelpIntent", "AMAZON.StopIntent", "AMAZON.CancelIntent",
   "LogWorkoutIntent", "LogMealIntent"}

\* C25: on /alexa/auth/log with an access token present the request type fixes the
\* control outcome as on /api/alexa/log: LaunchRequest is welcomed with the session
\* open, SessionEndedRequest ends the session, an IntentRequest with a name the
\* handler does not know leaves the session open, and a request of any other type
\* is answered with the session open (shouldEndSession false).
C25_AuthControl ==
  (Did("alexa_auth_log") /\ last.req.token.present) =>
    /\ last.req.type = "LaunchRequest" =>
         (last.resp.speech.tag = "welcome" /\ ~last.resp.end)
    /\ last.req.type = "SessionEndedRequest" => last.resp.end
    /\ (last.req.type = "IntentRequest" /\ last.req.name \notin AuthIntents) => ~last.resp.end
    /\ last.req.type \notin {"LaunchRequest", "SessionEndedRequest", "IntentRequest"} =>
         ~last.resp.end

\* the last request was a log intent of the given name on one of the voice webhooks
\* (on /alexa/auth/log with an access token)
LogIntentDone(name) ==
  /\ last.pc = "done"
  /\ \/ last.op = "alexa_log" /\ last.req.shape = "voice"
     \/ last.op = "alexa_auth_log" /\ last.req.token.present
  /\ last.req.type = "IntentRequest"
  /\ last.req.name = name

\* a slot bag whose entries carry a string value or no value
TextBag(slots) ==
  /\ slots.t = "dict"
  /\ \A k \in DOMAIN slots.m : slots.m[k].t \in {"str", "novalue"}

\* the text of the first alias that is in the bag with a non-empty value (<<>>: none)
RECURSIVE FirstText(_, _)
FirstText(slots, names) ==
  IF names = <<>> THEN <<>>
  ELSE IF Head(names) \in DOMAIN slots.m /\ slots.m[Head(names)].s # <<>>
  THEN slots.m[Head(names)].s
  ELSE FirstText(slots, Tail(names))

\* C26: a LogWorkoutIntent whose Duration / duration slot carries a text that is an
\* integer gets that integer as duration ("45" gives 45), one whose text is not an
\* integer gets 30, one whose slot is absent or empty gets 30; in each case the
\* handler goes on with a workout event and does not answer with the error response.
C26_DurationResolved ==
  (LogIntentDone("LogWorkoutIntent") /\ TextBag(last.req.slots)) =>
    LET text == FirstText(last.req.slots, <<"Duration", "duration">>) IN
    /\ last.resp # ErrorEnvelope
    /\ last.data["type"] = "workout"
    /\ text = <<>> => last.data["duration"] = 30
    /\ (text # <<>> /\ ParseInt(text).ok) => last.data["duration"] = ParseInt(text).val
    /\ (text # <<>> /\ ~ParseInt(text).ok) => last.data["duration"] = 30
    /\ text = S_45 => last.data["duration"] = 45

\* a workout intent whose duration text is not an integer was logged with 30
C26_Witness ==
  /\ LogIntentDone("LogWorkoutIntent") /\ TextBag(last.req.slots)
  /\ FirstText(last.req.slots, <<"Duration", "duration">>) = S_forty
  /\ last.data["duration"] = 30
  /\ last.resp.speech.tag = "workout_logged"

\* C27: the duration of every workout event a voice webhook builds from a
\* LogWorkoutIntent, whatever the Duration slot carries, is an integer >= 0.
C27_DurationNonNegative ==
  (LogIntentDone("LogWorkoutIntent") /\ "duration" \in DOMAIN last.data) =>
    (last.data["duration"] \in Int /\ last.data["duration"] >= 0)

\* C28: for a slot bag that maps slot names to entries with a text value or no
\* value, and every alias list, get_slot_value returns the value of the first alias
\* in list order that is in the bag with a non-empty value, letter for letter (an
\* alias whose entry has an empty or no value is passed over), and its default
\* argument when there is no such alias.
C28_FirstNonEmptyAlias ==
  (Did("get_slot_value") /\ TextBag(last.req.slots)) =>
    LET text == FirstText(last.req.slots, last.req.names) IN
    /\ last.exc = "none"
    /\ last.data["value"] = IF text # <<>> THEN SV(text) ELSE last.req.default

\* the first alias is in the bag with an empty value and the second one's value, with
\* its capital letter, came back
C28_Witness ==
  /\ Did("get_slot_value")
  /\ last.req.slots = Slots2("WorkoutType", SV(S_empty), "workoutType", SV(S_Running))
  /\ last.req.names = <<"WorkoutType", "workoutType">>
  /\ last.req.default = SV(S_cardio)
  /\ last.data["value"] = SV(S_Running)

\* the meal type and the food items the claim gives for a slot bag
MealTypeOf(slots) ==
  LET text == FirstText(slots, <<"MealType", "mealType">>) IN
  IF text # <<>> THEN lower(text) ELSE S_snack

FoodItemsOf(slots) ==
  LET text == FirstText(slots, <<"FoodItem", "foodItems">>) IN
  IF text # <<>> THEN <<text>> ELSE <<>>

\* the places of the records of the meal collection that carry the id of the last request
MealRecordsOfLast == {i \in DOMAIN rtdb["meal_logs"] : rtdb["meal_logs"][i].id = last.id}

C29_Event ==
  (VoiceLogIntent("LogMealIntent") /\ TextBag(last.req.slots)) =>
    /\ last.resp # ErrorEnvelope
    /\ last.data["mealType"] = MealTypeOf(last.req.slots)
    /\ last.data["foodItems"] = FoodItemsOf(last.req.slots)
    /\ last.data["source"] = "alexa"
    /\ (FIREBASE_INITIALIZED /\ last.exc # "push") =>
         /\ last.pushed /\ last.pushes = 1
         /\ Cardinality(MealRecordsOfLast) = 1
         /\ \A i \in MealRecordsOfLast :
              /\ rtdb["meal_logs"][i].data.meal_type = MealTypeOf(last.req.slots)
              /\ rtdb["meal_logs"][i].data.food_items = FoodItemsOf(last.req.slots)
              /\ rtdb["meal_logs"][i].data.source = "alexa"

C29_OneRecord ==
  \A w \in Workers :
    (/\ req[w].pc = "push" /\ req[w].op = "alexa_log" /\ req[w].req.shape = "voice"
     /\ req[w].req.name = "LogMealIntent"
     /\ req'[w] # req[w] /\ rtdb' # rtdb) =>
      /\ Len(rtdb'["meal_logs"]) = Len(rtdb["meal_logs"]) + 1
      /\ SubSeq(rtdb'["meal_logs"], 1, Len(rtdb["meal_logs"])) = rtdb["meal_logs"]
      /\ rtdb'["workout_logs"] = rtdb["workout_logs"]

\* C29: a LogMealIntent on /api/alexa/log gives a meal event whose meal type is the
\* lower-cased value of the first MealType / mealType alias with a value, 'snack'
\* when there is none, and whose food items are the one-element sequence of the
\* FoodItem / foodItems value, empty when there is none; when the store is
\* initialised and its push returns, the request adds exactly one record to the meal
\* collection, with these values and source 'alexa', and none to the workout one.
C29_MealEvent == [](C29_Event) /\ [][C29_OneRecord]_vars

\* 'Lunch' with oatmeal was stored as 'lunch' with the one food item
C29_Witness ==
  /\ VoiceLogIntent("LogMealIntent")
  /\ last.req.slots = Slots2("MealType", SV(S_Lunch), "FoodItem", SV(S_oatmeal))
  /\ last.pushed
  /\ \E i \in MealRecordsOfLast :
       /\ rtdb["meal_logs"][i].data.meal_type = S_lunch
       /\ rtdb["meal_logs"][i].data.food_items = <<S_oatmeal>>

\* C30: whatever the slot bag of a LogWorkoutIntent or LogMealIntent is (a slot
\* absent, an entry without a value, an empty value, a null entry, a null bag, a
\* value that is not a text, a duration that is not a number), the voice webhook
\* builds a log event from defaults and does not answer with the error response.
C30_NeverFailsOnSlots ==
  (LogIntentDone("LogWorkoutIntent") \/ LogIntentDone("LogMealIntent")) =>
    /\ last.resp # ErrorEnvelope
    /\ "type" \in DOMAIN last.data

\* the last request came to /alexa/auth/log without an access token
NoTokenDone == Did("alexa_auth_log") /\ ~last.req.token.present

C31_Prompt ==
  NoTokenDone =>
    /\ last.resp = Envelope(Speech("link_account", <<>>, <<>>, 0), "LinkAccount", TRUE)
    /\ last.pushes = 0 /\ last.syncs = 0 /\ ~last.pushed

C31_NoWrite ==
  (served' = served + 1 /\ last'.pc = "done" /\ last'.op = "alexa_auth_log"
   /\ ~last'.req.token.present) =>
    (rtdb' = rtdb /\ users' = users /\ sublogs' = sublogs /\ nextKey' = nextKey)

\* C31: a request to /alexa/auth/log without an access token, of whatever request
\* type and intent, is answered with the link-account prompt (LinkAccount card,
\* shouldEndSession true), makes no store call and leaves every store as it was.
C31_LinkPrompt == [](C31_Prompt) /\ [][C31_NoWrite]_vars

\* a log intent with usable slots and no token got the prompt
C31_Witness ==
  /\ NoTokenDone
  /\ last.req.type = "IntentRequest" /\ last.req.name = "LogWorkoutIntent"
  /\ TextBag(last.req.slots) /\ FirstText(last.req.slots, <<"Duration", "duration">>) = S_45
  /\ last.resp.card = "LinkAccount" /\ last.resp.end
  /\ firestore_db # "None"

\* every record of the append store is where it was, as it was
RecordsKept ==
  \A c \in DOMAIN rtdb :
    /\ Len(rtdb'[c]) >= Len(rtdb[c])
    /\ SubSeq(rtdb'[c], 1, Len(rtdb[c])) = rtdb[c]

\* this step completes a list, link, status or unlink request
ReadOrLinkStep ==
  /\ last' # last
  /\ last'.op \in {"get_workout_logs", "get_meal_logs", "alexa_link_account",
                   "check_alexa_link_status", "unlink_alexa_account"}

C32_Step == RecordsKept /\ (ReadOrLinkStep => (rtdb' = rtdb /\ nextKey' = nextKey))

\* each record carries a key of the store, and no two records the same one
C32_Ids ==
  /\ \A p \in Slots : rtdb[p[1]][p[2]].id.tag = "key" /\ rtdb[p[1]][p[2]].id.n < nextKey
  /\ \A p, q \in Slots : rtdb[p[1]][p[2]].id = rtdb[q[1]][q[2]].id => p = q

\* C32: no step of a log, list, link, status or unlink request changes or removes a
\* record of the append store (a step only appends); every record has the key the
\* store gave it at its push, a key no other record has; and the list endpoints, like
\* the account-linking ones, leave the stored records as they are.
C32_Immutable == [](C32_Ids) /\ [][C32_Step]_vars

\* a list request was answered with the two records the store holds
C32_Witness ==
  /\ Did("get_workout_logs") /\ last.resp.success
  /\ Len(rtdb["workout_logs"]) = 2
  /\ Len(last.resp.logs) = 2
  /\ rtdb["workout_logs"][1].id # rtdb["workout_logs"][2].id

\* no identifier occurs twice in the sequence
NoRepeat(seq) == \A i, j \in DOMAIN seq : seq[i].id = seq[j].id => i = j

\* every entry of the aggregate sequence of kind k carries the key of a record of
\* collection c
EntriesStored(k, c) ==
  \A n \in DOMAIN AggLogs(users["alexa_user"], k) :
    \E i \in DOMAIN rtdb[c] : rtdb[c][i].id = AggLogs(users["alexa_user"], k)[n].id

\* C33: in every state, with log requests interleaved at their store calls, each
\* entry of the aggregate document's workoutLogs (mealLogs) carries the key of a
\* record of workout_logs (meal_logs) in the append store, no key occurs twice in
\* either sequence, and 'temp_id' is the identifier of no stored record and of no
\* aggregate entry.
C33_AggregateIds ==
  /\ EntriesStored("workout", "workout_logs")
  /\ EntriesStored("meal", "meal_logs")
  /\ NoRepeat(AggLogs(users["alexa_user"], "workout"))
  /\ NoRepeat(AggLogs(users["alexa_user"], "meal"))
  /\ \A k \in {"workout", "meal"} : \A n \in DOMAIN AggLogs(users["alexa_user"], k) :
       AggLogs(users["alexa_user"], k)[n].id # TEMP_ID
  /\ \A p \in Slots : rtdb[p[1]][p[2]].id # TEMP_ID

\* one request's record is in the store and in the aggregate, and a voice-source
\* request whose push raised was answered with the placeholder
C33_Witness ==
  /\ Len(AggLogs(users["alexa_user"], "workout")) + Len(AggLogs(users["alexa_user"], "meal")) >= 1
  /\ Len(rtdb["workout_logs"]) + Len(rtdb["meal_logs"]) >= 1
  /\ last.pc = "done" /\ last.res.success /\ last.res.id = TEMP_ID

\* the aggregate sequence of kind k has an entry with this identifier
InAggregate(k, id) ==
  \E n \in DOMAIN AggLogs(users["alexa_user"], k) : AggLogs(users["alexa_user"], k)[n].id = id

\* C34: when one workout sync and one meal sync have both returned True, in whatever
\* order their reads and writes of the aggregate document took place (both finding
\* no document and creating it included), the document holds the workout entry in
\* workoutLogs and the meal entry in mealLogs.
C34_SyncsKeepEachOther ==
  \A i \in DOMAIN rtdb["workout_logs"] : \A j \in DOMAIN rtdb["meal_logs"] :
    (/\ Quiet
     /\ rtdb["workout_logs"][i].id \in syncOk
     /\ rtdb["meal_logs"][j].id \in syncOk) =>
      /\ InAggregate("workout", rtdb["workout_logs"][i].id)
      /\ InAggregate("meal", rtdb["meal_logs"][j].id)

\* C35: on /alexa/auth/log a log record is written under an email only when the
\* verification of the access token succeeded and that email is the email claim of
\* the verified token; no record is kept under the fallback identity
\* 'unknown_email' or under an email read from the payload of a token that did not
\* verify.
C35_VerifiedIdentityOnly ==
  /\ (Did("alexa_auth_log") /\ last.pushed) =>
       (last.req.token.verified /\ last.req.token.email = Some(last.email))
  /\ \A x \in sublogs : x.email # "unknown_email"

\* a link request of a verified identity whose body has no code or no redirect_uri
LacksCodeOrUri(x) ==
  /\ x.op = "alexa_link_account" /\ x.pc = "done" /\ x.req.method = "POST"
  /\ Verify(x.req.header).ok
  /\ \/ "code" \notin DOMAIN x.req.body \/ x.req.body["code"] = ""
     \/ "redirect_uri" \notin DOMAIN x.req.body \/ x.req.body["redirect_uri"] = ""

C36_Answer ==
  LacksCodeOrUri(last) =>
    /\ last.resp.kind = "json" /\ last.resp.http = 400 /\ ~last.resp.success
    /\ \A i \in DOMAIN last.calls : last.calls[i] # "token"

C36_NoWrite == (served' = served + 1 /\ LacksCodeOrUri(last')) => users' = users

\* C36: a link request of a verified identity whose body has no code or no
\* redirect_uri (the key absent, or its value empty) is answered 400 without a
\* request to the token endpoint, and no document, the identity's amazonTokens map
\* included, changes.
C36_MissingCode == [](C36_Answer) /\ [][C36_NoWrite]_vars

\* a linked identity sent a link request with an empty code and stays linked with
\* the token it had
C36_Witness ==
  /\ LacksCodeOrUri(last)
  /\ "code" \in DOMAIN last.req.body /\ last.req.body["code"] = ""
  /\ last.resp.http = 400
  /\ last.calls = <<"tokeninfo">>
  /\ AmazonTokens(users[last.email]).linked = Some(TRUE)
  /\ AmazonTokens(users[last.email]).accessToken = Some("A1")

====
